---- MODULE Spec2Model ----
(***************************************************************************)
(* Image service of the daemon: commit of a container's writable layer     *)
(* into a new image (daemon/images/image_commit.go) over the layer store,  *)
(* the image store, the container index and the events sink.               *)
(***************************************************************************)
EXTENDS Integers, Sequences, FiniteSets, TLC

VARIABLES
    pc,         \* position of the request-handling thread inside the call
    ctxDone,    \* ctx.Err() != nil for the call in progress
    c,          \* backend.CommitConfig of the call in progress
    rwTar,      \* CommitImage's rwTar: "nil" or "set" (the wrapper of rc)
    parent,     \* CommitImage's parent: the parent image's RootFS diff IDs
    l,          \* CommitImage's l: chain ID of the registered layer, NoChain when unset
    config,     \* CommitImage's config: the child image before serialisation
    id,         \* CommitImage's id: the ID imageStore.Create returned
    ret,        \* what the call returned: [id, err], err = "pending" while running
    rc,         \* the read-closer of exportContainerRw: [state, name, eof, step]
    rwlayers,   \* layer store: RW layer name -> [ref, mounts]
    layers,     \* layer store: chain ID -> [diffID, parent, ref]
    images,     \* image store: image ID -> [rootfs, parent, builtLocally, container, os, created]
    containers, \* in-memory container index: ID -> [MountLabel, OS, ImageID, Running]
    events,     \* events sink: sequence of [action, id, name]
    calls,      \* collaborator operations invoked by the call in progress, in order
    pre,        \* stores as they were when the call in progress started
    clock,      \* time.Now(), in ticks
    ncalls,     \* calls started so far
    hpc,        \* positions of the clients of a read-closer handed out on its own
    req,        \* backend.CommitConfig as the caller passed it
    refs,       \* reference store: name -> image ID
    du,         \* the ImageDiskUsage call in progress
    rel,        \* container removal: RW layer handles held, ReleaseLayer results
    mgr,        \* download and upload managers: concurrency bounds, UpdateConfig results
    dl,         \* Worker.FromRemote calls in progress, one per chain, and the metadata service
    api,        \* store clients: layer references held, storage counters, last result
    bk          \* the builder: the GetRemotes call in progress, the upload hand-off of a job

vars == <<pc, ctxDone, c, rwTar, parent, l, config, id, ret, rc, rwlayers,
          layers, images, containers, events, calls, pre, clock, ncalls, hpc,
          req, refs, du, rel, mgr, dl, api, bk>>

\* What the commit path leaves alone.
Ext == <<dl, api, bk>>
Others == <<refs, du, rel, mgr, Ext>>
Aux == <<req, Others>>

\* ------------------------------------------------------------------ bounds
MaxDiff == 2        \* diff IDs are 1..MaxDiff
MaxCalls == 1       \* calls issued in one behaviour
MaxClock == 1       \* ticks of the clock
MaxReads == 2       \* reads a client issues on a read-closer
MaxCloses == 2      \* Close calls one client issues on a read-closer
MaxReleases == 2    \* ImageService.ReleaseLayer calls issued in one behaviour
MaxConc == 2        \* largest concurrency bound a reconfiguration asks for
MaxTransfers == 4   \* layer downloads submitted to the download manager
MaxRelCalls == 2    \* times the release function of one Download is invoked
MaxOps == 4         \* calls the clients make on the layer and image stores
MaxTagOps == 3      \* commits under a name, tags and removals by name
MaxCreates == 3     \* CreateLayer calls
MaxOthers == 2      \* requests served during one disk-usage scan
MaxRestores == 2    \* GetLayerByID calls
MaxReloads == 2     \* UpdateConfig calls

DiffIDs == 1..MaxDiff
Base == MaxDiff + 1

NoChain == 0        \* layer.ChainID("")
NoImage == 0        \* image.ID("")

ContainerIDs == <<"", "c1", "c2", "c3">>   \* "" is the container of a pulled image
OSNames == <<"linux", "windows">>
MountLabels == {"", "s0"}
HThreads == {"reader", "closer1", "closer2"}

IndexOf(seq, x) == CHOOSE k \in 1..Len(seq) : seq[k] = x
Range(seq) == {seq[k] : k \in 1..Len(seq)}

Count(seq, x) == Cardinality({k \in 1..Len(seq) : seq[k] = x})

Front(seq) == SubSeq(seq, 1, Len(seq) - 1)
Last(seq) == seq[Len(seq)]

\* ------------------------------------------------------------------ identities
\* RootFS.ChainID(): ChainID(L0) = DiffID(L0), ChainID(Ln) = Hash(ChainID(Ln-1) + DiffID(Ln)),
\* the empty RootFS has the empty chain ID. The hash is a positional code over Base.
RECURSIVE ChainID(_)
ChainID(diffIDs) ==
    IF diffIDs = <<>> THEN NoChain
    ELSE ChainID(Front(diffIDs)) * Base + Last(diffIDs)

\* image.ID: the content hash of the serialised image; equal bytes, equal ID.
DigestOf(img) ==
    1 + img.created + (MaxClock + 1) *
        ((IndexOf(OSNames, img.os) - 1) + Len(OSNames) *
            ((IndexOf(ContainerIDs, img.container) - 1) + Len(ContainerIDs) *
                ChainID(img.rootfs)))

\* An image ID no image of the store has: no commit of "c3" ever succeeds.
UnknownImage ==
    DigestOf([rootfs |-> <<>>, container |-> "c3", os |-> "linux", created |-> 0])

\* image.NewRootFS()
NewRootFS == <<>>

\* image.NewChildImage(parent, cc, os): the parent's RootFS with the new layer's
\* DiffID appended, the container, the OS and the creation time.
NewChildImage(parentRootFS, cc, os, now) ==
    [rootfs |-> Append(parentRootFS, cc.DiffID), container |-> cc.ContainerID,
     os |-> os, created |-> now]

\* ------------------------------------------------------------------ layer store
\* layerStore.GetRWLayer(name): takes a reference on the named RW layer.
GetRWLayer(rws, name) ==
    IF name \in DOMAIN rws
    THEN [err |-> "nil", rws |-> [rws EXCEPT ![name].ref = @ + 1]]
    ELSE [err |-> "ErrMountDoesNotExist", rws |-> rws]

\* rwlayer.Mount(label)
Mount(rws, name) ==
    IF name \in DOMAIN rws THEN [rws EXCEPT ![name].mounts = @ + 1] ELSE rws

\* rwlayer.Unmount()
Unmount(rws, name) ==
    IF name \in DOMAIN rws /\ rws[name].mounts > 0
    THEN [rws EXCEPT ![name].mounts = @ - 1] ELSE rws

\* layerStore.ReleaseRWLayer(rwlayer): drops a reference; the last one removes
\* the storage. A layer that is no longer there is left alone.
ReleaseRWLayer(rws, name) ==
    IF name \notin DOMAIN rws THEN rws
    ELSE IF rws[name].ref > 1 THEN [rws EXCEPT ![name].ref = @ - 1]
    ELSE [n \in DOMAIN rws \ {name} |-> rws[n]]

\* Variant: a layer that is already there is returned without counting the
\* new reference.
RegisterNoCount(ls, diffID, parentChain) ==
    LET chain == parentChain * Base + diffID IN
    IF parentChain # NoChain /\ parentChain \notin DOMAIN ls
    THEN [err |-> "ErrLayerNotFound", chain |-> NoChain, ls |-> ls]
    ELSE IF chain \in DOMAIN ls
    THEN [err |-> "nil", chain |-> chain, ls |-> ls]
    ELSE [err |-> "nil", chain |-> chain,
          ls |-> [k \in DOMAIN ls \cup {chain} |->
                    IF k = chain
                    THEN [diffID |-> diffID, parent |-> parentChain, ref |-> 1]
                    ELSE IF k = parentChain THEN [ls[k] EXCEPT !.ref = @ + 1]
                    ELSE ls[k]]]

\* layerStore.Register(diff, parentChainID): the existing layer with one more
\* reference, or a new layer, which holds a reference on its parent;
\* ErrLayerNotFound for an unknown non-empty parent.
Register(ls, diffID, parentChain) ==
    LET chain == parentChain * Base + diffID IN
    IF parentChain # NoChain /\ parentChain \notin DOMAIN ls
    THEN [err |-> "ErrLayerNotFound", chain |-> NoChain, ls |-> ls]
    ELSE IF chain \in DOMAIN ls
    THEN [err |-> "nil", chain |-> chain, ls |-> [ls EXCEPT ![chain].ref = @ + 1]]
    ELSE [err |-> "nil", chain |-> chain,
          ls |-> [k \in DOMAIN ls \cup {chain} |->
                    IF k = chain
                    THEN [diffID |-> diffID, parent |-> parentChain, ref |-> 1]
                    ELSE IF k = parentChain THEN [ls[k] EXCEPT !.ref = @ + 1]
                    ELSE ls[k]]]

\* layerStore.Release(layer): drops a reference; the last one removes the layer's
\* storage and drops the reference the layer held on its parent.
RECURSIVE ReleaseLayer(_, _)
ReleaseLayer(ls, chain) ==
    IF chain \notin DOMAIN ls THEN ls
    ELSE IF ls[chain].ref > 1 THEN [ls EXCEPT ![chain].ref = @ - 1]
    ELSE ReleaseLayer([k \in DOMAIN ls \ {chain} |-> ls[k]], ls[chain].parent)

\* ------------------------------------------------------------------ image store
\* Variant: a known ID takes another reference on its layer.
ImageCreateCountsAgain(imgs, ls, img) ==
    LET newID == DigestOf(img)
        chain == ChainID(img.rootfs) IN
    [id |-> newID,
     imgs |-> [k \in DOMAIN imgs \cup {newID} |->
                 IF k = newID /\ k \notin DOMAIN imgs
                 THEN [rootfs |-> img.rootfs, container |-> img.container,
                       os |-> img.os, created |-> img.created,
                       parent |-> NoImage, builtLocally |-> FALSE]
                 ELSE imgs[k]],
     ls |-> IF chain \in DOMAIN ls THEN [ls EXCEPT ![chain].ref = @ + 1] ELSE ls]

\* imageStore.Create(config): the ID is the content hash; a known ID adds no
\* record; a new record holds a reference on its layer.
ImageCreate(imgs, ls, img) ==
    LET newID == DigestOf(img)
        chain == ChainID(img.rootfs) IN
    IF newID \in DOMAIN imgs THEN [id |-> newID, imgs |-> imgs, ls |-> ls]
    ELSE [id |-> newID,
          imgs |-> [k \in DOMAIN imgs \cup {newID} |->
                      IF k = newID
                      THEN [rootfs |-> img.rootfs, container |-> img.container,
                            os |-> img.os, created |-> img.created,
                            parent |-> NoImage, builtLocally |-> FALSE]
                      ELSE imgs[k]],
          ls |-> IF chain \in DOMAIN ls THEN [ls EXCEPT ![chain].ref = @ + 1] ELSE ls]

\* imageStore.SetBuiltLocally(id)
SetBuiltLocally(imgs, imgID) == [imgs EXCEPT ![imgID].builtLocally = TRUE]

\* imageStore.SetParent(id, parent)
SetParent(imgs, imgID, parentID) == [imgs EXCEPT ![imgID].parent = parentID]

\* imageStore.Children(id)
Children(imgs, imgID) == {k \in DOMAIN imgs : imgs[k].parent = imgID}

\* i.LogImageEvent(ctx, imageID, refName, action)
LogImageEvent(evs, imageID, refName, action) ==
    Append(evs, [action |-> action, id |-> imageID, name |-> refName])

\* ------------------------------------------------------------------ initial state
NoConfig ==
    [op |-> "none", ContainerID |-> "", ContainerMountLabel |-> "", ContainerOS |-> "linux",
     ParentImageID |-> NoImage]
NoChild == [rootfs |-> <<>>, container |-> "", os |-> "linux", created |-> 0]
NoRet == [id |-> NoImage, err |-> "none"]
NoRC == [state |-> "None", name |-> "", eof |-> FALSE, step |-> 0]
NoClient == [at |-> "idle", reads |-> 0, closes |-> 0, i |-> 0]
NoPre == [rwlayers |-> <<>>, layers |-> <<>>, images |-> <<>>, nevents |-> 0]

\* Two pulled images: P1 with RootFS [1] and P2 with RootFS [1, 2].
BaseImage(diffIDs) ==
    [rootfs |-> diffIDs, container |-> "", os |-> "linux", created |-> 0,
     parent |-> NoImage, builtLocally |-> FALSE]
P1 == DigestOf(BaseImage(<<1>>))
P2 == DigestOf(BaseImage(<<1, 2>>))

\* The RW layer of the running container c1 is mounted, that of c2 is not.
InitStores(img2, idx) ==
    /\ rwlayers = [n \in {"c1", "c2"} |->
                     [ref |-> 1, mounts |-> IF n = "c1" THEN 1 ELSE 0,
                      parent |-> IF n = "c1" THEN ChainID(<<1>>)
                                 ELSE IF img2 = NoImage \/ n \notin idx THEN NoChain
                                 ELSE ChainID(<<1, 2>>)]]
    /\ layers = [k \in {ChainID(<<1>>), ChainID(<<1, 2>>)} |->
                   IF k = ChainID(<<1>>)
                   THEN [diffID |-> 1, parent |-> NoChain, ref |-> 2]
                   ELSE [diffID |-> 2, parent |-> ChainID(<<1>>), ref |-> 1]]
    /\ images = [k \in {P1, P2} |->
                   IF k = P1 THEN BaseImage(<<1>>) ELSE BaseImage(<<1, 2>>)]
    /\ containers = [n \in idx |->
                       IF n = "c1"
                       THEN [MountLabel |-> "s0", OS |-> "linux", ImageID |-> P1,
                             Running |-> TRUE]
                       ELSE [MountLabel |-> "", OS |-> "windows", ImageID |-> img2,
                             Running |-> FALSE]]
    /\ events = <<>>

InitLocals ==
    /\ pc = "idle"
    /\ ctxDone = FALSE
    /\ c = NoConfig
    /\ rwTar = "nil"
    /\ parent = <<>>
    /\ l = NoChain
    /\ config = NoChild
    /\ id = NoImage
    /\ ret = NoRet
    /\ rc = NoRC
    /\ calls = <<>>
    /\ pre = NoPre
    /\ clock = 0
    /\ ncalls = 0
    /\ hpc = [t \in HThreads |-> NoClient]

\* The reference store names the pulled images; no scan, release or
\* reconfiguration has happened; the managers have the configured bounds.
RefNames == {"r1", "r2"}
NoDU ==
    [pc |-> "idle", ctxDone |-> FALSE, entry |-> FALSE, layerRefs |-> <<>>, allLayers |-> <<>>,
     todo |-> {}, allLayersSize |-> 0, err |-> "none",
     images |-> <<>>, walk |-> {}, walked |-> {}, cur |-> NoImage]
NoRelease ==
    [kind |-> "none", h |-> "", k |-> 0, called |-> FALSE, storeErr |-> "none",
     err |-> "none", repeat |-> FALSE, changed |-> FALSE]
\* No GetLayerByID has returned.
NoGot == [cid |-> "", err |-> "none"]
\* The goroutines that can be inside UpdateConfig at the same time. Of each the
\* call it is in, or the last one it made: the arguments, the managers it called
\* and the bound each manager had when the call reached it.
Reloads == {"A", "B"}
NoReload ==
    [pc |-> "idle", maxDownloads |-> 0, maxUploads |-> 0, calls |-> {},
     before |-> [down |-> 0, up |-> 0]]

\* The builder worker before any FromRemote call: per chain the position of the
\* call, its locals (with the stack of its deferred calls) and the calls it has
\* made on the stores, in order; the V2 metadata service (diffID -> blob
\* digests) and the content store (blob digests).
ChainNames == {"A", "B"}
NoRef == [err |-> "nil", ref |-> NoChain]
NoCall ==
    [pc |-> "idle", descs |-> <<>>, layers |-> <<>>, taken |-> <<>>, hasRelease |-> FALSE,
     released |-> FALSE, rootFS |-> <<>>, i |-> 0, k |-> 0, parent |-> NoChain, g |-> NoRef,
     defers |-> <<>>, del |-> 0, ref |-> NoChain, err |-> "nil", nrel |-> 0, log |-> <<>>]
NoDownloads ==
    [call |-> [ch \in ChainNames |-> NoCall], meta |-> [d \in DiffIDs |-> {}],
     content |-> {}]
\* The clients of the stores before any call: the layer references they hold
\* (a count per chain ID), the calls made, the images deleted in order, the
\* ChainIDs each Register of a (diff, parent) pair returned, the errors
\* CreateLayer returned, the last call.
KnownChains == 1..(MaxDiff * Base + MaxDiff)
NoResult ==
    [op |-> "none", err |-> "nil", chain |-> NoChain, diff |-> 0, parent |-> NoChain,
     id |-> NoImage, existed |-> FALSE, os |-> "", name |-> "", label |-> ""]
\* No CreateLayer call under way: cl is the call between its two store calls,
\* with the image imageStore.Get gave it (nil for the empty image ID).
NoCreate ==
    [pc |-> "idle", op |-> "none", n |-> 0, name |-> "", id |-> NoImage, label |-> "",
     img |-> [err |-> "nil", nil |-> TRUE, img |-> NoChild]]
NoAPI ==
    [held |-> [k \in KnownChains |-> 0], n |-> 0, deleted |-> <<>>,
     returned |-> [x \in DiffIDs \X (0..MaxDiff) |-> {}], errs |-> {}, last |-> NoResult,
     cl |-> NoCreate]

\* No GetRemotes call, and a build job nobody has used yet.
NoRemotes ==
    [pc |-> "idle", ref |-> "nil", createIfNeeded |-> FALSE, all |-> FALSE, calls |-> <<>>,
     diffIDs |-> <<>>, remotes |-> <<>>, err |-> "none"]
\* newBuildJob(): nobody waits on the job's channel, no reader was handed over.
\* w and s are the positions of the WaitUpload and the SetUpload call, rd and cl
\* those of the consumer's Read and Close on the wrapped reader; handed tells
\* that the hand-off took place, lateW and lateS that the context of the call
\* had ended by then.
NoJob ==
    [w |-> "idle", s |-> "idle", ctxW |-> FALSE, ctxS |-> FALSE,
     handed |-> FALSE, lateW |-> FALSE, lateS |-> FALSE,
     done |-> FALSE, upload |-> "nil", once |-> FALSE, err |-> "none",
     rd |-> "idle", cl |-> "idle", reads |-> 0, closes |-> 0, signals |-> <<>>,
     retW |-> [rc |-> "nil", err |-> "none"], retS |-> "none"]
NoBuilder == [gr |-> NoRemotes, job |-> NoJob]

InitRefs == refs = [n \in RefNames |-> IF n = "r1" THEN P1 ELSE P2]

\* A transfer manager as its constructor leaves it: the concurrency bound, no
\* transfer submitted. A transfer is idle (not submitted), waiting for a slot,
\* running or cancelling (in its slot, its context live or cancelled), or has
\* ended: done, failed or cancelled. since and inflight are history: the
\* transfers started since, and those holding a slot at, the last
\* SetConcurrency.
Transfers == 1..MaxTransfers
NewManager(concurrencyLimit) ==
    [nil |-> FALSE, limit |-> concurrencyLimit, st |-> [t \in Transfers |-> "idle"],
     since |-> {}, inflight |-> {}]

\* NewImageService: both managers are built from the configured bounds.
InitManagers(maxConcurrentDownloads, maxConcurrentUploads) ==
    mgr = [downloadManager |-> NewManager(maxConcurrentDownloads),
           uploadManager |-> NewManager(maxConcurrentUploads),
           upd |-> [r \in Reloads |-> NoReload],
           n |-> 0]

InitOther ==
    /\ req = NoConfig
    /\ du = NoDU
    /\ rel = [held |-> {<<"c1", 0>>, <<"c2", 0>>}, released |-> {}, n |-> 0,
              last |-> NoRelease, gets |-> 0, got |-> NoGot]
    /\ dl = NoDownloads
    /\ api = NoAPI
    /\ bk = NoBuilder

InitRest == InitOther /\ InitManagers(3, 5)

InitAux == InitRefs /\ InitRest

Init ==
    /\ InitLocals
    /\ InitAux
    /\ \E img2 \in {NoImage, P2}, idx \in {{"c1", "c2"}, {"c1"}} : InitStores(img2, idx)

\* ------------------------------------------------------------------ the read-closer
\* closerOps releasing the RW layer twice.
closerOpsReleaseTwice == <<"archive.Close", "Unmount", "ReleaseRWLayer", "ReleaseRWLayer">>

\* The closer exportContainerRw hands to ioutils.NewReadCloserWrapper.
closerOps == <<"archive.Close", "Unmount", "ReleaseRWLayer">>

ApplyOp(rws, name, op) ==
    CASE op = "Unmount" -> Unmount(rws, name)
      [] op = "ReleaseRWLayer" -> ReleaseRWLayer(rws, name)
      [] OTHER -> rws

\* ------------------------------------------------------------------ CommitImage
Locals == <<rwTar, parent, l, config, id>>
Stores == <<rwlayers, layers, images, events>>

Snapshot ==
    [rwlayers |-> rwlayers, layers |-> layers, images |-> images, nevents |-> Len(events)]

\* A request thread enters CommitImage or CommitBuildStep.
Call ==
    /\ pc = "idle"
    /\ ncalls < MaxCalls
    /\ \E op \in {"CommitImage", "CommitBuildStep"}, cancelled \in BOOLEAN,
          cid \in {"c1", "c2", "c3"}, label \in MountLabels,
          os \in Range(OSNames), pid \in DOMAIN images \cup {NoImage, UnknownImage} :
            /\ c' = [op |-> op, ContainerID |-> cid, ContainerMountLabel |-> label,
                     ContainerOS |-> os, ParentImageID |-> pid]
            /\ ctxDone' = cancelled
            /\ pc' = op
    /\ ncalls' = ncalls + 1
    /\ pre' = Snapshot
    /\ calls' = <<>>
    /\ ret' = [id |-> NoImage, err |-> "pending"]
    /\ UNCHANGED <<Locals, rc, Stores, containers, clock, hpc, Aux>>

Fail(err, next) ==
    /\ ret' = [id |-> NoImage, err |-> err]
    /\ pc' = next

\* CommitImageEntry without the check of the context.
CommitImageEntryNoCheck ==
    /\ pc = "CommitImage"
    /\ pc' = "GetRWLayer"
    /\ UNCHANGED <<ctxDone, c, Locals, ret, rc, Stores, containers, calls, pre, clock, ncalls,
                   hpc, Aux>>

\* if err := ctx.Err(); err != nil { return "", err }
CommitImageEntry ==
    /\ pc = "CommitImage"
    /\ IF ctxDone
       THEN Fail("context canceled", "done")
       ELSE pc' = "GetRWLayer" /\ UNCHANGED ret
    /\ UNCHANGED <<ctxDone, c, Locals, rc, Stores, containers, calls, pre, clock, ncalls, hpc, Aux>>

\* exportContainerRw: rwlayer, err := layerStore.GetRWLayer(id)
ExportGetRWLayer ==
    /\ pc = "GetRWLayer"
    /\ LET r == GetRWLayer(rwlayers, c.ContainerID) IN
        /\ rwlayers' = r.rws
        /\ IF r.err # "nil"
           THEN Fail(r.err, "done")
           ELSE pc' = "Mount" /\ UNCHANGED ret
    /\ calls' = Append(calls, "GetRWLayer")
    /\ UNCHANGED <<ctxDone, c, Locals, rc, layers, images, events, containers, pre, clock,
                   ncalls, hpc, Aux>>

\* ExportMount unmounting, like the TarStream path, when Mount failed.
ExportMountUnmounts ==
    /\ pc = "Mount"
    /\ calls' = Append(calls, "Mount")
    /\ \E ok \in BOOLEAN :
        IF ok
        THEN /\ rwlayers' = Mount(rwlayers, c.ContainerID)
             /\ pc' = "TarStream"
             /\ UNCHANGED ret
        ELSE /\ Fail("mount error", "Unmount")
             /\ UNCHANGED rwlayers
    /\ UNCHANGED <<ctxDone, c, Locals, rc, layers, images, events, containers, pre, clock,
                   ncalls, hpc, Aux>>

\* exportContainerRw: rwlayer.Mount(mountLabel); on error "return nil, err",
\* with the deferred closure still to run.
ExportMount ==
    /\ pc = "Mount"
    /\ calls' = Append(calls, "Mount")
    /\ \E ok \in BOOLEAN :
        IF ok
        THEN /\ rwlayers' = Mount(rwlayers, c.ContainerID)
             /\ pc' = "TarStream"
             /\ UNCHANGED ret
        ELSE /\ Fail("mount error", "ExportRelease")
             /\ UNCHANGED rwlayers
    /\ UNCHANGED <<ctxDone, c, Locals, rc, layers, images, events, containers, pre, clock,
                   ncalls, hpc, Aux>>

\* Variant: the deferred ReleaseRWLayer runs on success too.
ExportTarStreamReleasesEarly ==
    /\ pc = "TarStream"
    /\ calls' = Append(calls, "TarStream")
    /\ \E ok \in BOOLEAN :
        IF ok
        THEN /\ rc' = [state |-> "Open", name |-> c.ContainerID, eof |-> FALSE, step |-> 0]
             /\ rwTar' = "set"
             /\ rwlayers' = ReleaseRWLayer(rwlayers, c.ContainerID)
             /\ pc' = IF c.op = "exportContainerRw" THEN "handed" ELSE "parent"
             /\ UNCHANGED ret
        ELSE /\ Fail("tar error", "Unmount")
             /\ UNCHANGED <<rc, rwTar, rwlayers>>
    /\ UNCHANGED <<ctxDone, c, parent, l, config, id, layers, images, events, containers,
                   pre, clock, ncalls, hpc, Aux>>

\* exportContainerRw: archive, err := rwlayer.TarStream(); on success the stream
\* is wrapped, on error the layer is still to be unmounted.
ExportTarStream ==
    /\ pc = "TarStream"
    /\ calls' = Append(calls, "TarStream")
    /\ \E ok \in BOOLEAN :
        IF ok
        THEN /\ rc' = [state |-> "Open", name |-> c.ContainerID, eof |-> FALSE, step |-> 0]
             /\ rwTar' = "set"
             /\ pc' = IF c.op = "exportContainerRw" THEN "handed" ELSE "parent"
             /\ UNCHANGED ret
        ELSE /\ Fail("tar error", "Unmount")
             /\ UNCHANGED <<rc, rwTar>>
    /\ UNCHANGED <<ctxDone, c, parent, l, config, id, rwlayers, layers, images, events,
                   containers, pre, clock, ncalls, hpc, Aux>>

\* exportContainerRw: _ = rwlayer.Unmount(), after TarStream failed; "return
\* nil, err" follows.
ExportUnmount ==
    /\ pc = "Unmount"
    /\ rwlayers' = Unmount(rwlayers, c.ContainerID)
    /\ calls' = Append(calls, "Unmount")
    /\ pc' = "ExportRelease"
    /\ UNCHANGED <<ctxDone, c, Locals, ret, rc, layers, images, events, containers, pre,
                   clock, ncalls, hpc, Aux>>

\* exportContainerRw's deferred closure on a return with an error:
\* layerStore.ReleaseRWLayer(rwlayer).
ExportRelease ==
    /\ pc = "ExportRelease"
    /\ rwlayers' = ReleaseRWLayer(rwlayers, c.ContainerID)
    /\ calls' = Append(calls, "ReleaseRWLayer")
    /\ pc' = "done"
    /\ UNCHANGED <<ctxDone, c, Locals, ret, rc, layers, images, events, containers, pre,
                   clock, ncalls, hpc, Aux>>

\* ResolveParent taking a missing parent image for an empty one.
ResolveParentIgnoreMissing ==
    /\ pc = "parent"
    /\ IF c.ParentImageID = NoImage
       THEN /\ parent' = NewRootFS
            /\ UNCHANGED calls
       ELSE /\ calls' = Append(calls, "imageStore.Get")
            /\ parent' = IF c.ParentImageID \in DOMAIN images
                         THEN images[c.ParentImageID].rootfs ELSE NewRootFS
    /\ pc' = "Register"
    /\ UNCHANGED <<ctxDone, c, rwTar, l, config, id, ret, rc, Stores, containers, pre, clock,
                   ncalls, hpc, Aux>>

\* parent: an empty RootFS for an empty ParentImageID, else imageStore.Get.
ResolveParent ==
    /\ pc = "parent"
    /\ IF c.ParentImageID = NoImage
       THEN /\ parent' = NewRootFS
            /\ pc' = "Register"
            /\ UNCHANGED <<ret, calls>>
       ELSE /\ calls' = Append(calls, "imageStore.Get")
            /\ IF c.ParentImageID \in DOMAIN images
               THEN /\ parent' = images[c.ParentImageID].rootfs
                    /\ pc' = "Register"
                    /\ UNCHANGED ret
               ELSE /\ Fail("ErrImageNotFound", "return")
                    /\ UNCHANGED parent
    /\ UNCHANGED <<ctxDone, c, rwTar, l, config, id, rc, Stores, containers, pre, clock,
                   ncalls, hpc, Aux>>

\* l, err := i.layerStore.Register(rwTar, parent.RootFS.ChainID()): the call
\* begins. An unknown parent chain is an error before the stream is read; else
\* the stream is read, up to an error or up to its end, where the wrapper
\* leaves Open and the closer is run by the read that met the end.
RegisterLayer ==
    /\ pc = "Register"
    /\ calls' = Append(calls, "Register")
    /\ LET r == Register(layers, 1, ChainID(parent)) IN
        IF r.err # "nil"
        THEN /\ Fail(r.err, "return")
             /\ UNCHANGED rc
        ELSE \E eof \in BOOLEAN :
               IF eof
               THEN /\ rc' = [rc EXCEPT !.state = "Closing", !.eof = TRUE, !.step = 0]
                    /\ pc' = "Register.Read"
                    /\ UNCHANGED ret
               ELSE /\ Fail("register error", "return")
                    /\ UNCHANGED rc
    /\ UNCHANGED <<ctxDone, c, Locals, Stores, containers, pre, clock, ncalls, hpc, Aux>>

\* The closer of the wrapper, run by the commit's thread one call at a time:
\* inside the read of Register that met the end of the stream, or inside the
\* deferred rwTar.Close(). The wrapper is Closed when the last call returned.
CommitCloser ==
    /\ pc \in {"Register.Read", "rwTar.Close"}
    /\ LET i == rc.step + 1 IN
        /\ rwlayers' = ApplyOp(rwlayers, rc.name, closerOps[i])
        /\ calls' = Append(calls, closerOps[i])
        /\ IF i < Len(closerOps)
           THEN /\ rc' = [rc EXCEPT !.step = i]
                /\ UNCHANGED pc
           ELSE /\ rc' = [rc EXCEPT !.step = 0, !.state = "Closed"]
                /\ pc' = IF pc = "Register.Read" THEN "Register.done" ELSE "done"
    /\ UNCHANGED <<ctxDone, c, Locals, ret, layers, images, events, containers, pre, clock,
                   ncalls, hpc, Aux>>

\* layerStore.Register returns: the layer is in the store with one more
\* reference, or the registration failed after the stream was read.
RegisterLayerDone ==
    /\ pc = "Register.done"
    /\ \E d \in DiffIDs, ok \in BOOLEAN :
        LET r == Register(layers, d, ChainID(parent)) IN
        IF r.err # "nil"
        THEN /\ Fail(r.err, "return")
             /\ UNCHANGED <<l, layers>>
        ELSE IF ~ok
        THEN /\ Fail("register error", "return")
             /\ UNCHANGED <<l, layers>>
        ELSE /\ l' = r.chain
             /\ layers' = r.ls
             /\ pc' = "Marshal"
             /\ UNCHANGED ret
    /\ UNCHANGED <<ctxDone, c, rwTar, parent, config, id, rc, rwlayers, images, events,
                   containers, calls, pre, clock, ncalls, hpc, Aux>>

\* MarshalChild building the child from an empty parent.
MarshalChildDropsParent ==
    /\ pc = "Marshal"
    /\ config' = NewChildImage(NewRootFS,
                     [ContainerID |-> c.ContainerID, DiffID |-> layers[l].diffID],
                     c.ContainerOS, clock)
    /\ pc' = "Create"
    /\ UNCHANGED <<ctxDone, c, rwTar, parent, l, id, ret, rc, Stores, containers, calls, pre,
                   clock, ncalls, hpc, Aux>>

\* cc := image.ChildConfig{...}; config, err := json.Marshal(image.NewChildImage(parent, cc, c.ContainerOS))
MarshalChild ==
    /\ pc = "Marshal"
    /\ \E ok \in BOOLEAN :
        IF ok
        THEN /\ config' = NewChildImage(parent,
                              [ContainerID |-> c.ContainerID, DiffID |-> layers[l].diffID],
                              c.ContainerOS, clock)
             /\ pc' = "Create"
             /\ UNCHANGED ret
        ELSE /\ Fail("marshal error", "return")
             /\ UNCHANGED config
    /\ UNCHANGED <<ctxDone, c, rwTar, parent, l, id, rc, Stores, containers, calls, pre,
                   clock, ncalls, hpc, Aux>>

\* id, err := i.imageStore.Create(config)
CreateImage ==
    /\ pc = "Create"
    /\ calls' = Append(calls, "Create")
    /\ \E ok \in BOOLEAN :
        IF ok
        THEN LET r == ImageCreate(images, layers, config) IN
             /\ id' = r.id
             /\ images' = r.imgs
             /\ layers' = r.ls
             /\ pc' = "LogImageEvent"
             /\ UNCHANGED ret
        ELSE /\ Fail("create error", "return")
             /\ UNCHANGED <<id, images, layers>>
    /\ UNCHANGED <<ctxDone, c, rwTar, parent, l, config, rc, rwlayers, events, containers,
                   pre, clock, ncalls, hpc, Aux>>

\* LogCreateEvent emitting the event twice.
LogCreateEventTwice ==
    /\ pc = "LogImageEvent"
    /\ events' = LogImageEvent(LogImageEvent(events, id, id, "create"), id, id, "create")
    /\ calls' = calls \o <<"LogImageEvent", "LogImageEvent">>
    /\ pc' = "SetBuiltLocally"
    /\ UNCHANGED <<ctxDone, c, Locals, ret, rc, rwlayers, layers, images, containers, pre,
                   clock, ncalls, hpc, Aux>>

\* LogCreateEvent emitting nothing.
LogCreateEventNone ==
    /\ pc = "LogImageEvent"
    /\ pc' = "SetBuiltLocally"
    /\ UNCHANGED <<ctxDone, c, Locals, ret, rc, Stores, containers, calls, pre, clock, ncalls,
                   hpc, Aux>>

\* i.LogImageEvent(ctx, id.String(), id.String(), events.ActionCreate)
LogCreateEvent ==
    /\ pc = "LogImageEvent"
    /\ events' = LogImageEvent(events, id, id, "create")
    /\ calls' = Append(calls, "LogImageEvent")
    /\ pc' = "SetBuiltLocally"
    /\ UNCHANGED <<ctxDone, c, Locals, ret, rc, rwlayers, layers, images, containers, pre,
                   clock, ncalls, hpc, Aux>>

\* MarkBuiltLocally deleting the image record when SetBuiltLocally fails.
MarkBuiltLocallyRollback ==
    /\ pc = "SetBuiltLocally"
    /\ calls' = Append(calls, "SetBuiltLocally")
    /\ \E ok \in BOOLEAN :
        IF ok
        THEN /\ images' = SetBuiltLocally(images, id)
             /\ pc' = "SetParent"
             /\ UNCHANGED ret
        ELSE /\ Fail("set built locally error", "return")
             /\ images' = [k \in DOMAIN images \ {id} |-> images[k]]
    /\ UNCHANGED <<ctxDone, c, Locals, rc, rwlayers, layers, events, containers, pre, clock,
                   ncalls, hpc, Aux>>

\* MarkBuiltLocally going on to SetParent although SetBuiltLocally failed.
MarkBuiltLocallyThenParent ==
    /\ pc = "SetBuiltLocally"
    /\ \E ok \in BOOLEAN :
        IF ok
        THEN /\ images' = SetBuiltLocally(images, id)
             /\ calls' = Append(calls, "SetBuiltLocally")
             /\ pc' = "SetParent"
             /\ UNCHANGED ret
        ELSE /\ Fail("set built locally error", "return")
             /\ calls' = calls \o <<"SetBuiltLocally", "SetParent">>
             /\ images' = IF c.ParentImageID # NoImage
                           THEN SetParent(images, id, c.ParentImageID) ELSE images
    /\ UNCHANGED <<ctxDone, c, Locals, rc, rwlayers, layers, events, containers, pre, clock,
                   ncalls, hpc, Aux>>

\* if err := i.imageStore.SetBuiltLocally(id); err != nil { return "", err }
MarkBuiltLocally ==
    /\ pc = "SetBuiltLocally"
    /\ calls' = Append(calls, "SetBuiltLocally")
    /\ \E ok \in BOOLEAN :
        IF ok
        THEN /\ images' = SetBuiltLocally(images, id)
             /\ pc' = "SetParent"
             /\ UNCHANGED ret
        ELSE /\ Fail("set built locally error", "return")
             /\ UNCHANGED images
    /\ UNCHANGED <<ctxDone, c, Locals, rc, rwlayers, layers, events, containers, pre, clock,
                   ncalls, hpc, Aux>>

\* LinkParent calling SetParent whatever ParentImageID is.
LinkParentAlways ==
    /\ pc = "SetParent"
    /\ calls' = Append(calls, "SetParent")
    /\ images' = SetParent(images, id, c.ParentImageID)
    /\ ret' = [id |-> id, err |-> "nil"]
    /\ pc' = "return"
    /\ UNCHANGED <<ctxDone, c, Locals, rc, rwlayers, layers, events, containers, pre, clock,
                   ncalls, hpc, Aux>>

\* if c.ParentImageID != "" { SetParent(id, c.ParentImageID) }; return id, nil
LinkParent ==
    /\ pc = "SetParent"
    /\ IF c.ParentImageID # NoImage
       THEN /\ calls' = Append(calls, "SetParent")
            /\ \E ok \in BOOLEAN :
                IF ok
                THEN /\ images' = SetParent(images, id, c.ParentImageID)
                     /\ ret' = [id |-> id, err |-> "nil"]
                ELSE /\ ret' = [id |-> NoImage, err |-> "set parent error"]
                     /\ UNCHANGED images
       ELSE /\ ret' = [id |-> id, err |-> "nil"]
            /\ UNCHANGED <<images, calls>>
    /\ pc' = "return"
    /\ UNCHANGED <<ctxDone, c, Locals, rc, rwlayers, layers, events, containers, pre, clock,
                   ncalls, hpc, Aux>>

\* CommitDefers without the deferred ReleaseAndLog.
CommitDefersNoRelease(lv, tar) == IF tar # "nil" THEN <<"rwTar.Close">> ELSE <<>>

\* CommitDefers without the deferred rwTar.Close().
CommitDefersNoClose(lv, tar) == IF lv # NoChain THEN <<"ReleaseAndLog">> ELSE <<>>

\* The deferred calls of CommitImage, last registered first: ReleaseAndLog(l)
\* once Register succeeded, and rwTar.Close() when rwTar is not nil.
CommitDefers(lv, tar) ==
    (IF lv # NoChain THEN <<"ReleaseAndLog">> ELSE <<>>) \o
    (IF tar # "nil" THEN <<"rwTar.Close">> ELSE <<>>)

\* CommitImage returns: its deferred calls run one after the other. A
\* rwTar.Close() that finds the wrapper Open goes on to run the closer.
RunDefers ==
    /\ pc \in {"return", "return.2"}
    /\ LET ds == CommitDefers(l, rwTar)
           k == IF pc = "return" THEN 1 ELSE 2
           next == IF k < Len(ds) THEN "return.2" ELSE "done" IN
        IF ds = <<>>
        THEN /\ pc' = "done"
             /\ UNCHANGED <<layers, rc, calls>>
        ELSE IF ds[k] = "ReleaseAndLog"
        THEN /\ layers' = ReleaseLayer(layers, l)
             /\ calls' = Append(calls, "ReleaseAndLog")
             /\ pc' = next
             /\ UNCHANGED rc
        ELSE /\ calls' = Append(calls, "rwTar.Close")
             /\ IF rc.state = "Open"
                THEN /\ rc' = [rc EXCEPT !.state = "Closing", !.step = 0]
                     /\ pc' = "rwTar.Close"
                ELSE /\ pc' = next
                     /\ UNCHANGED rc
             /\ UNCHANGED layers
    /\ UNCHANGED <<ctxDone, c, Locals, ret, rwlayers, images, events, containers, pre, clock,
                   ncalls, hpc, Aux>>

\* CommitBuildStep delegating without looking at the result of containers.Get.
CommitBuildStepNoCheck ==
    /\ pc = "CommitBuildStep"
    /\ calls' = Append(calls, "containers.Get")
    /\ pc' = "CommitImage"
    /\ UNCHANGED <<ctxDone, c, Locals, ret, rc, Stores, containers, pre, clock, ncalls, hpc, Aux>>

\* CommitBuildStep keeping the caller's ParentImageID.
CommitBuildStepKeepsParent ==
    /\ pc = "CommitBuildStep"
    /\ calls' = Append(calls, "containers.Get")
    /\ IF c.ContainerID \notin DOMAIN containers
       THEN /\ Fail("container not found", "done")
            /\ UNCHANGED c
       ELSE /\ c' = [c EXCEPT !.ContainerMountLabel = containers[c.ContainerID].MountLabel,
                              !.ContainerOS = containers[c.ContainerID].OS]
            /\ pc' = "CommitImage"
            /\ UNCHANGED ret
    /\ UNCHANGED <<ctxDone, Locals, rc, Stores, containers, pre, clock, ncalls, hpc, Aux>>

\* CommitBuildStep: the container record's mount label, OS and image ID replace
\* the caller's; an absent record is a not-found error.
CommitBuildStep ==
    /\ pc = "CommitBuildStep"
    /\ calls' = Append(calls, "containers.Get")
    /\ IF c.ContainerID \notin DOMAIN containers
       THEN /\ Fail("container not found", "done")
            /\ UNCHANGED c
       ELSE /\ c' = [c EXCEPT !.ContainerMountLabel = containers[c.ContainerID].MountLabel,
                              !.ContainerOS = containers[c.ContainerID].OS,
                              !.ParentImageID = containers[c.ContainerID].ImageID]
            /\ pc' = "CommitImage"
            /\ UNCHANGED ret
    /\ UNCHANGED <<ctxDone, Locals, rc, Stores, containers, pre, clock, ncalls, hpc, Aux>>

\* The call is over; the thread takes the next request.
Reset ==
    /\ pc \in {"done", "handed"}
    /\ \A t \in HThreads : hpc[t].at # "closer"
    /\ pc' = "idle"
    /\ ctxDone' = FALSE
    /\ c' = NoConfig
    /\ rwTar' = "nil"
    /\ parent' = <<>>
    /\ l' = NoChain
    /\ config' = NoChild
    /\ id' = NoImage
    /\ ret' = NoRet
    /\ rc' = NoRC
    /\ calls' = <<>>
    /\ pre' = NoPre
    /\ hpc' = [t \in HThreads |-> NoClient]
    /\ req' = NoConfig
    /\ UNCHANGED <<Stores, containers, clock, ncalls, Others>>

\* Time passes between two requests.
Tick ==
    /\ pc = "idle"
    /\ ncalls > 0
    /\ clock < MaxClock
    /\ clock' = clock + 1
    /\ UNCHANGED <<pc, ctxDone, c, Locals, ret, rc, Stores, containers, calls, pre, ncalls,
                   hpc, Aux>>

Next ==
    \/ Call
    \/ CommitBuildStep
    \/ CommitImageEntry
    \/ ExportGetRWLayer
    \/ ExportMount
    \/ ExportTarStream
    \/ ExportUnmount
    \/ ExportRelease
    \/ ResolveParent
    \/ RegisterLayer
    \/ CommitCloser
    \/ RegisterLayerDone
    \/ MarshalChild
    \/ CreateImage
    \/ LogCreateEvent
    \/ MarkBuiltLocally
    \/ LinkParent
    \/ RunDefers
    \/ Reset
    \/ Tick

Spec == Init /\ [][Next]_vars

\* ------------------------------------------------------------------ a read-closer and its clients
\* exportContainerRw called on its own: the stream goes to clients that read
\* and close it concurrently.
CallExport ==
    /\ pc = "idle"
    /\ ncalls < MaxCalls
    /\ \E cid \in {"c1", "c2", "c3"}, label \in MountLabels :
            c' = [op |-> "exportContainerRw", ContainerID |-> cid,
                  ContainerMountLabel |-> label, ContainerOS |-> "linux",
                  ParentImageID |-> NoImage]
    /\ pc' = "GetRWLayer"
    /\ ncalls' = ncalls + 1
    /\ pre' = Snapshot
    /\ calls' = <<>>
    /\ ret' = [id |-> NoImage, err |-> "pending"]
    /\ UNCHANGED <<ctxDone, Locals, rc, Stores, containers, clock, hpc, Aux>>

\* The wrapper leaves Open for the one caller that finds it Open; that caller
\* then runs the closer.
Enter(t, how) ==
    IF rc.state = "Open"
    THEN /\ rc' = [rc EXCEPT !.state = "Closing", !.eof = (how = "EOF")]
         /\ hpc' = [hpc EXCEPT ![t].at = "closer", ![t].i = 1,
                               ![t].reads = @ + (IF how = "EOF" THEN 1 ELSE 0),
                               ![t].closes = @ + (IF how = "Close" THEN 1 ELSE 0)]
    ELSE /\ rc' = rc
         /\ hpc' = [hpc EXCEPT ![t].reads = @ + (IF how = "EOF" THEN 1 ELSE 0),
                               ![t].closes = @ + (IF how = "Close" THEN 1 ELSE 0)]

\* Read: data, or the end of the stream.
HRead(t) ==
    /\ pc = "handed"
    /\ t = "reader"
    /\ hpc[t].at = "idle"
    /\ hpc[t].reads < MaxReads
    /\ \E how \in {"data", "EOF"} :
        IF how = "EOF" /\ rc.state = "Open"
        THEN Enter(t, "EOF")
        ELSE rc' = rc /\ hpc' = [hpc EXCEPT ![t].reads = @ + 1]
    /\ UNCHANGED <<pc, ctxDone, c, Locals, ret, Stores, containers, calls, pre, clock,
                   ncalls, Aux>>

\* Close
HClose(t) ==
    /\ pc = "handed"
    /\ hpc[t].at = "idle"
    /\ hpc[t].closes < MaxCloses
    /\ Enter(t, "Close")
    /\ UNCHANGED <<pc, ctxDone, c, Locals, ret, Stores, containers, calls, pre, clock,
                   ncalls, Aux>>

\* The caller that took the wrapper out of Open runs the closer, one call at a time.
HCloserStep(t) ==
    /\ pc = "handed"
    /\ hpc[t].at = "closer"
    /\ IF hpc[t].i <= Len(closerOps)
       THEN /\ rwlayers' = ApplyOp(rwlayers, rc.name, closerOps[hpc[t].i])
            /\ calls' = Append(calls, closerOps[hpc[t].i])
            /\ hpc' = [hpc EXCEPT ![t].i = @ + 1]
            /\ UNCHANGED rc
       ELSE /\ rc' = [rc EXCEPT !.state = "Closed"]
            /\ hpc' = [hpc EXCEPT ![t].at = "idle"]
            /\ UNCHANGED <<rwlayers, calls>>
    /\ UNCHANGED <<pc, ctxDone, c, Locals, ret, layers, images, events, containers, pre,
                   clock, ncalls, Aux>>

NextRC ==
    \/ CallExport
    \/ ExportGetRWLayer
    \/ ExportMount
    \/ ExportTarStream
    \/ ExportUnmount
    \/ ExportRelease
    \/ \E t \in HThreads : HRead(t)
    \/ \E t \in HThreads : HClose(t)
    \/ \E t \in HThreads : HCloserStep(t)
    \/ Reset

SpecRC == Init /\ [][NextRC]_vars

\* ------------------------------------------------------------------ the builder's commits
\* The builder enters CommitBuildStep; the config it passes is kept.
CallBuildStep ==
    /\ pc = "idle"
    /\ ncalls < MaxCalls
    /\ \E cancelled \in BOOLEAN, cid \in {"c1", "c2", "c3"}, label \in MountLabels,
          os \in Range(OSNames), pid \in DOMAIN images \cup {NoImage, UnknownImage} :
            /\ c' = [op |-> "CommitBuildStep", ContainerID |-> cid,
                     ContainerMountLabel |-> label, ContainerOS |-> os,
                     ParentImageID |-> pid]
            /\ ctxDone' = cancelled
    /\ req' = c'
    /\ pc' = "CommitBuildStep"
    /\ ncalls' = ncalls + 1
    /\ pre' = Snapshot
    /\ calls' = <<>>
    /\ ret' = [id |-> NoImage, err |-> "pending"]
    /\ UNCHANGED <<Locals, rc, Stores, containers, clock, hpc, Others>>

NextBS ==
    \/ CallBuildStep
    \/ CommitBuildStep
    \/ CommitImageEntry
    \/ ExportGetRWLayer
    \/ ExportMount
    \/ ExportTarStream
    \/ ExportUnmount
    \/ ExportRelease
    \/ ResolveParent
    \/ RegisterLayer
    \/ CommitCloser
    \/ RegisterLayerDone
    \/ MarshalChild
    \/ CreateImage
    \/ LogCreateEvent
    \/ MarkBuiltLocally
    \/ LinkParent
    \/ RunDefers
    \/ Reset
    \/ Tick

SpecBS == Init /\ [][NextBS]_vars

\* ------------------------------------------------------------------ ImageDiskUsage
\* referenceStore.References(dgst): the names that point to the image.
References(rs, imgID) == {n \in DOMAIN rs : rs[n] = imgID}

\* layer.DiffSize(): the bytes of the layer's diff, fixed by its content.
DiffSize(layer) == layer.diffID

\* layerRefs[chid]++
Incr(m, k) == IF k \in DOMAIN m THEN [m EXCEPT ![k] = @ + 1] ELSE m @@ (k :> 1)

\* for _, id := range img.RootFS.DiffIDs { rootFS.Append(id); layerRefs[rootFS.ChainID()]++ }
RECURSIVE WalkRootFS(_, _, _)
WalkRootFS(m, diffIDs, k) ==
    IF k > Len(diffIDs) THEN m
    ELSE WalkRootFS(Incr(m, ChainID(SubSeq(diffIDs, 1, k))), diffIDs, k + 1)

\* if len(i.referenceStore.References(dgst)) == 0 && ...: the left operand of
\* the skip condition; the right one, len(i.imageStore.Children(id)) != 0, is
\* evaluated only when it holds.
Unreferenced(rs, imgID) == References(rs, imgID) = {}

DUVars == <<pc, ctxDone, c, Locals, ret, rc, Stores, containers, calls, pre, clock, ncalls,
            hpc, req, refs, rel, mgr, Ext>>

\* A request thread enters ImageDiskUsage, its context cancelled or not.
DUCall ==
    /\ du.pc = "idle"
    /\ \E cancelled \in BOOLEAN :
        du' = [NoDU EXCEPT !.pc = "getLayerRefs", !.ctxDone = cancelled, !.entry = cancelled]
    /\ UNCHANGED DUVars

\* The caller cancels the context while the layers are scanned (a cancellation
\* before the scan is seen at the same check as one at entry).
DUCancel ==
    /\ du.pc = "range"
    /\ ~du.ctxDone
    /\ du' = [du EXCEPT !.ctxDone = TRUE]
    /\ UNCHANGED DUVars

\* getLayerRefs: tmpImages := i.imageStore.Map()
DUImageMap ==
    /\ du.pc = "getLayerRefs"
    /\ du' = [du EXCEPT !.images = images, !.walk = DOMAIN images, !.pc = "images"]
    /\ UNCHANGED DUVars

\* getLayerRefs: a turn of the loop over tmpImages starts with the read of the
\* reference store as it is now. An image that has a name is walked: the
\* RootFS is the one of the copy. For one that has none the children are read
\* next. After the last turn the map is returned.
DUWalkImage ==
    /\ du.pc = "images"
    /\ IF du.walk = {}
       THEN du' = [du EXCEPT !.pc = "Map"]
       ELSE \E imgID \in du.walk :
              IF Unreferenced(refs, imgID)
              THEN du' = [du EXCEPT !.walk = @ \ {imgID}, !.cur = imgID, !.pc = "Children"]
              ELSE du' = [du EXCEPT !.walk = @ \ {imgID},
                                    !.walked = @ \cup {imgID},
                                    !.layerRefs = WalkRootFS(@, du.images[imgID].rootfs, 1)]
    /\ UNCHANGED DUVars

\* getLayerRefs: the second read of the turn, of the children in the image
\* store as it is by now. The image is skipped if it has one, walked if not.
DUChildren ==
    /\ du.pc = "Children"
    /\ du' = IF Children(images, du.cur) # {}
             THEN [du EXCEPT !.cur = NoImage, !.pc = "images"]
             ELSE [du EXCEPT !.cur = NoImage, !.pc = "images",
                             !.walked = @ \cup {du.cur},
                             !.layerRefs = WalkRootFS(@, du.images[du.cur].rootfs, 1)]
    /\ UNCHANGED DUVars

\* allLayers := i.layerStore.Map()
DUMap ==
    /\ du.pc = "Map"
    /\ du' = [du EXCEPT !.allLayers = layers, !.todo = DOMAIN layers, !.pc = "range"]
    /\ UNCHANGED DUVars

\* Variant: the size of every layer of the map is added.
DURangeCountsAll ==
    /\ du.pc = "range"
    /\ IF du.todo = {}
       THEN du' = [du EXCEPT !.pc = "done", !.err = "nil"]
       ELSE \E k \in du.todo :
              IF du.ctxDone
              THEN du' = [du EXCEPT !.pc = "done", !.err = "context canceled"]
              ELSE du' = [du EXCEPT !.allLayersSize = @ + DiffSize(du.allLayers[k]),
                                    !.todo = @ \ {k}]
    /\ UNCHANGED DUVars

\* Variant: the layer's size is added before the context is looked at.
DURangeAddsFirst ==
    /\ du.pc = "range"
    /\ IF du.todo = {}
       THEN du' = [du EXCEPT !.pc = "done", !.err = "nil"]
       ELSE \E k \in du.todo :
              LET sum == du.allLayersSize + (IF k \in DOMAIN du.layerRefs
                                             THEN DiffSize(du.allLayers[k]) ELSE 0) IN
              IF du.ctxDone
              THEN du' = [du EXCEPT !.allLayersSize = sum, !.pc = "done",
                                    !.err = "context canceled"]
              ELSE du' = [du EXCEPT !.allLayersSize = sum, !.todo = @ \ {k}]
    /\ UNCHANGED DUVars

\* Variant: the context is never looked at.
DURangeNoCheck ==
    /\ du.pc = "range"
    /\ IF du.todo = {}
       THEN du' = [du EXCEPT !.pc = "done", !.err = "nil"]
       ELSE \E k \in du.todo :
              du' = [du EXCEPT
                       !.allLayersSize = @ + (IF k \in DOMAIN du.layerRefs
                                              THEN DiffSize(du.allLayers[k]) ELSE 0),
                       !.todo = @ \ {k}]
    /\ UNCHANGED DUVars

\* Variant: the loop ranges over the layer store itself, so a layer registered
\* during the scan is visited too.
DURangeLive ==
    /\ du.pc = "range"
    /\ IF du.todo = {}
       THEN du' = [du EXCEPT !.pc = "done", !.err = "nil"]
       ELSE \E k \in du.todo :
              IF du.ctxDone
              THEN du' = [du EXCEPT !.pc = "done", !.err = "context canceled"]
              ELSE du' = [du EXCEPT
                            !.allLayersSize = @ + (IF k \in DOMAIN du.layerRefs
                                                   THEN DiffSize(du.allLayers[k]) ELSE 0),
                            !.allLayers = [x \in DOMAIN du.allLayers \cup DOMAIN layers |->
                                             IF x \in DOMAIN du.allLayers
                                             THEN du.allLayers[x] ELSE layers[x]],
                            !.todo = (@ \ {k}) \cup (DOMAIN layers \ DOMAIN du.allLayers)]
    /\ UNCHANGED DUVars

\* for _, l := range allLayers: a cancelled context ends the call with what was
\* added so far; otherwise the layer's size is added if its chain ID is in
\* layerRefs. After the last layer: return allLayersSize, nil.
DURange ==
    /\ du.pc = "range"
    /\ IF du.todo = {}
       THEN du' = [du EXCEPT !.pc = "done", !.err = "nil"]
       ELSE \E k \in du.todo :
              IF du.ctxDone
              THEN du' = [du EXCEPT !.pc = "done", !.err = "context canceled"]
              ELSE du' = [du EXCEPT
                            !.allLayersSize = @ + (IF k \in DOMAIN du.layerRefs
                                                   THEN DiffSize(du.allLayers[k]) ELSE 0),
                            !.todo = @ \ {k}]
    /\ UNCHANGED DUVars

\* The call is over.
DUReset ==
    /\ du.pc = "done"
    /\ du' = NoDU
    /\ UNCHANGED DUVars

\* referenceStore.Delete: a name is removed, at any point of a scan.
Untag ==
    /\ \E n \in DOMAIN refs : refs' = [k \in DOMAIN refs \ {n} |-> refs[k]]
    /\ UNCHANGED <<pc, ctxDone, c, Locals, ret, rc, Stores, containers, calls, pre, clock,
                   ncalls, hpc, req, du, rel, mgr, Ext>>

\* A request thread commits the container c1 on top of the image it was created
\* from, while disk usage is computed.
CallCommit ==
    /\ pc = "idle"
    /\ du.pc = "idle"
    /\ ncalls < MaxCalls
    /\ "c1" \in DOMAIN containers
    /\ containers["c1"].ImageID \in DOMAIN images
    /\ c' = [op |-> "CommitImage", ContainerID |-> "c1",
             ContainerMountLabel |-> containers["c1"].MountLabel,
             ContainerOS |-> containers["c1"].OS,
             ParentImageID |-> containers["c1"].ImageID]
    /\ ctxDone' = FALSE
    /\ pc' = "CommitImage"
    /\ ncalls' = ncalls + 1
    /\ pre' = Snapshot
    /\ calls' = <<>>
    /\ ret' = [id |-> NoImage, err |-> "pending"]
    /\ UNCHANGED <<Locals, rc, Stores, containers, clock, hpc, Aux>>

\* A daemon that has pulled nothing yet: every store is empty.
InitFresh ==
    /\ rwlayers = <<>>
    /\ layers = <<>>
    /\ images = <<>>
    /\ containers = <<>>
    /\ events = <<>>
    /\ refs = <<>>

\* A daemon that holds one image, which no name refers to, and the container c1
\* created from it.
InitOne ==
    /\ rwlayers = [n \in {"c1"} |-> [ref |-> 1, mounts |-> 1, parent |-> ChainID(<<1>>)]]
    /\ layers = [k \in {ChainID(<<1>>)} |-> [diffID |-> 1, parent |-> NoChain, ref |-> 1]]
    /\ images = [k \in {P1} |-> BaseImage(<<1>>)]
    /\ containers = [n \in {"c1"} |->
                       [MountLabel |-> "s0", OS |-> "linux", ImageID |-> P1,
                        Running |-> TRUE]]
    /\ events = <<>>
    /\ refs = <<>>

InitDU ==
    /\ InitLocals
    /\ InitRest
    /\ \/ InitFresh
       \/ InitOne
       \/ InitStores(NoImage, {"c1", "c2"}) /\ InitRefs

NextDU ==
    \/ DUCall
    \/ DUCancel
    \/ DUImageMap
    \/ DUWalkImage
    \/ DUChildren
    \/ DUMap
    \/ DURange
    \/ DUReset
    \/ Untag
    \/ CallCommit
    \/ CommitImageEntry
    \/ ExportGetRWLayer
    \/ ExportMount
    \/ ExportTarStream
    \/ ExportUnmount
    \/ ExportRelease
    \/ ResolveParent
    \/ RegisterLayer
    \/ CommitCloser
    \/ RegisterLayerDone
    \/ MarshalChild
    \/ CreateImage
    \/ LogCreateEvent
    \/ MarkBuiltLocally
    \/ LinkParent
    \/ RunDefers
    \/ Reset

SpecDU == InitDU /\ [][NextDU]_vars

\* ------------------------------------------------------------------ ImageService.ReleaseLayer
\* What layerStore.ReleaseRWLayer can return.
StoreErrors == {"nil", "ErrMountDoesNotExist", "os.ErrNotExist", "driver error"}

\* layerStore.ReleaseRWLayer(l) for a reference l the daemon holds on an RW
\* layer: <<name, 0>> is the reference its container was created with,
\* <<name, k>> the one the k-th GetLayerByID returned. A reference that was
\* released already, or whose mount is gone, is left alone (the store may report
\* the missing mount). Otherwise the count drops, and the last reference removes
\* the storage: the driver can find it gone already (the record is dropped) or
\* fail (the reference stays held).
ReleaseRWLayerRef(rws, held, h, fault) ==
    IF h[1] \notin DOMAIN rws
    THEN [err |-> IF fault = "ErrMountDoesNotExist" THEN fault ELSE "nil",
          rws |-> rws, held |-> held \ {h}]
    ELSE IF h \notin held
    THEN [err |-> "nil", rws |-> rws, held |-> held]
    ELSE IF rws[h[1]].ref > 1 \/ fault # "driver error"
    THEN [err |-> IF rws[h[1]].ref > 1 THEN "nil" ELSE fault,
          rws |-> ReleaseRWLayer(rws, h[1]), held |-> held \ {h}]
    ELSE [err |-> fault, rws |-> rws, held |-> held]

\* Variant: a file-not-exist error is not tolerated.
releaseErrStrictNotExist(err) ==
    IF err \in {"nil", "ErrMountDoesNotExist"} THEN "nil"
    ELSE "driver failed to remove root filesystem"

\* Variant: ErrMountDoesNotExist is not tolerated.
releaseErrStrictMount(err) ==
    IF err \in {"nil", "os.ErrNotExist"} THEN "nil"
    ELSE "driver failed to remove root filesystem"

\* if err != nil && !errors.Is(err, layer.ErrMountDoesNotExist) && !errors.Is(err, os.ErrNotExist)
releaseErr(err) ==
    IF err \in {"nil", "ErrMountDoesNotExist", "os.ErrNotExist"} THEN "nil"
    ELSE "driver failed to remove root filesystem"

\* ImageService.ReleaseLayer(rwlayer), called by container removal with the
\* container's RW layer, or with a value of another type.
ImageServiceReleaseLayer ==
    /\ rel.n < MaxReleases
    /\ \E kind \in {"layer.RWLayer", "other"} :
        IF kind # "layer.RWLayer"
        THEN /\ rel' = [rel EXCEPT !.n = @ + 1,
                          !.last = [NoRelease EXCEPT !.kind = kind,
                                                     !.err = "unexpected RWLayer type"]]
             /\ UNCHANGED rwlayers
        ELSE \E h \in rel.held \cup rel.released, fault \in StoreErrors :
                LET r == ReleaseRWLayerRef(rwlayers, rel.held, h, fault) IN
                /\ rwlayers' = r.rws
                /\ rel' = [rel EXCEPT
                             !.n = @ + 1,
                             !.held = r.held,
                             !.released = IF releaseErr(r.err) = "nil" THEN @ \cup {h} ELSE @,
                             !.last = [kind |-> kind, h |-> h[1], k |-> h[2],
                                       called |-> TRUE,
                                       storeErr |-> r.err, err |-> releaseErr(r.err),
                                       repeat |-> h \in rel.released,
                                       changed |-> r.rws # rwlayers]]
    /\ UNCHANGED <<pc, ctxDone, c, Locals, ret, rc, layers, images, events, containers,
                   calls, pre, clock, ncalls, hpc, req, refs, du, mgr, Ext>>

\* ImageService.GetLayerByID(cid): return i.layerStore.GetRWLayer(cid). The daemon
\* asks for the RW layer of a container by its ID; the reference the layer store
\* hands out is one more the daemon holds.
GetLayerByID ==
    /\ rel.gets < MaxRestores
    /\ \E cid \in {"c1", "c2", "c3"} :
        LET r == GetRWLayer(rwlayers, cid) IN
        /\ rwlayers' = r.rws
        /\ rel' = [rel EXCEPT
                     !.gets = @ + 1,
                     !.held = IF r.err = "nil" THEN @ \cup {<<cid, rel.gets + 1>>} ELSE @,
                     !.got = [cid |-> cid, err |-> r.err]]
    /\ UNCHANGED <<pc, ctxDone, c, Locals, ret, rc, layers, images, events, containers,
                   calls, pre, clock, ncalls, hpc, req, refs, du, mgr, Ext>>

\* The daemon looks RW layers up by container ID and releases the references it
\* holds.
NextRW == GetLayerByID \/ ImageServiceReleaseLayer

SpecRW == Init /\ [][NextRW]_vars

\* Container removal runs beside one export whose client reads and closes the stream.
NextRel ==
    \/ ImageServiceReleaseLayer
    \/ CallExport
    \/ ExportGetRWLayer
    \/ ExportMount
    \/ ExportTarStream
    \/ ExportUnmount
    \/ ExportRelease
    \/ HRead("reader")
    \/ HClose("reader")
    \/ HCloserStep("reader")
    \/ Reset

SpecRel == Init /\ [][NextRel]_vars

\* ------------------------------------------------------------------ UpdateConfig
\* The values a reload passes: a negative one, 0, and the bounds up to MaxConc.
ConcValues == (-1)..MaxConc

\* LayerDownloadManager.SetConcurrency / LayerUploadManager.SetConcurrency
Running(m) == {t \in Transfers : m.st[t] \in {"running", "cancelling"}}

\* SetConcurrency(n): the bound of the manager's semaphore becomes n; the
\* transfers that hold a slot keep it.
SetConcurrency(m, concurrency) ==
    [m EXCEPT !.limit = concurrency, !.since = {}, !.inflight = Running(m)]

\* Variant: the download manager keeps its bound.
UpdateConfigDownloadsKeeps(m, r, maxDownloads, maxUploads) ==
    [m EXCEPT !.upd[r] = [pc |-> "upload", maxDownloads |-> maxDownloads,
                          maxUploads |-> maxUploads, calls |-> {},
                          before |-> [down |-> m.downloadManager.limit, up |-> 0]]]

\* UpdateConfig(maxDownloads, maxUploads), its first statement:
\* if i.downloadManager != nil && maxDownloads != 0 { i.downloadManager.SetConcurrency(maxDownloads) }
UpdateConfigDownloads(m, r, maxDownloads, maxUploads) ==
    LET down == ~m.downloadManager.nil /\ maxDownloads # 0 IN
    [m EXCEPT !.downloadManager = IF down THEN SetConcurrency(@, maxDownloads) ELSE @,
              !.upd[r] = [pc |-> "upload", maxDownloads |-> maxDownloads,
                          maxUploads |-> maxUploads,
                          calls |-> IF down THEN {"downloadManager"} ELSE {},
                          before |-> [down |-> m.downloadManager.limit, up |-> 0]]]

\* Variant: the upload manager is guarded by maxDownloads.
UpdateConfigUploadsCoupled(m, r) ==
    LET up == ~m.uploadManager.nil /\ m.upd[r].maxDownloads # 0 IN
    [m EXCEPT !.uploadManager = IF up THEN SetConcurrency(@, m.upd[r].maxUploads) ELSE @,
              !.upd[r] = [@ EXCEPT !.pc = "returned",
                                   !.calls = @ \cup (IF up THEN {"uploadManager"} ELSE {}),
                                   !.before.up = m.uploadManager.limit]]

\* UpdateConfig, its second statement and the return:
\* if i.uploadManager != nil && maxUploads != 0 { i.uploadManager.SetConcurrency(maxUploads) }
UpdateConfigUploads(m, r) ==
    LET up == ~m.uploadManager.nil /\ m.upd[r].maxUploads # 0 IN
    [m EXCEPT !.uploadManager = IF up THEN SetConcurrency(@, m.upd[r].maxUploads) ELSE @,
              !.upd[r] = [@ EXCEPT !.pc = "returned",
                                   !.calls = @ \cup (IF up THEN {"uploadManager"} ELSE {}),
                                   !.before.up = m.uploadManager.limit]]

XferVars == <<pc, ctxDone, c, Locals, ret, rc, Stores, containers, calls, pre, clock,
              ncalls, hpc, req, refs, du, rel, Ext>>

\* A reload with any pair of bounds enters UpdateConfig and sets the bound of
\* the download manager; another reload can be inside UpdateConfig.
UpdateConfig ==
    /\ mgr.n < MaxReloads
    /\ \E r \in Reloads, maxDownloads \in ConcValues, maxUploads \in ConcValues :
        /\ mgr.upd[r].pc # "upload"
        /\ mgr' = [UpdateConfigDownloads(mgr, r, maxDownloads, maxUploads) EXCEPT !.n = @ + 1]
    /\ UNCHANGED XferVars

\* A reload goes on to the upload manager and returns.
UpdateConfigReturn ==
    /\ \E r \in Reloads :
        /\ mgr.upd[r].pc = "upload"
        /\ mgr' = UpdateConfigUploads(mgr, r)
    /\ UNCHANGED XferVars

NextCfg == UpdateConfig \/ UpdateConfigReturn

SpecCfg == Init /\ [][NextCfg]_vars

\* ---- Downloads in flight while the bounds are reloaded ----

SetTransfer(t, status, started) ==
    mgr' = [mgr EXCEPT !.downloadManager.st[t] = status,
                       !.downloadManager.since = @ \cup started]

\* A layer download is handed to the download manager and queues for a slot.
XferSubmit ==
    /\ \E t \in Transfers :
        /\ mgr.downloadManager.st[t] = "idle"
        /\ \A u \in Transfers : u < t => mgr.downloadManager.st[u] # "idle"
        /\ SetTransfer(t, "waiting", {})
    /\ UNCHANGED XferVars

\* The transfer at the head of the queue acquires a slot of the semaphore:
\* fewer slots are held than the bound allows.
XferStart ==
    /\ \E t \in Transfers :
        /\ mgr.downloadManager.st[t] = "waiting"
        /\ \A u \in Transfers : u < t => mgr.downloadManager.st[u] # "waiting"
        /\ Cardinality(Running(mgr.downloadManager)) < mgr.downloadManager.limit
        /\ SetTransfer(t, "running", {t})
    /\ UNCHANGED XferVars

\* A running transfer completes and gives its slot back.
XferFinish ==
    /\ \E t \in Transfers :
        /\ mgr.downloadManager.st[t] = "running"
        /\ SetTransfer(t, "done", {})
    /\ UNCHANGED XferVars

\* The last attempt of a running transfer fails on the network (the attempts
\* before it were retried in the same slot): the transfer ends with that error
\* and gives its slot back.
XferFail ==
    /\ \E t \in Transfers :
        /\ mgr.downloadManager.st[t] = "running"
        /\ SetTransfer(t, "failed", {})
    /\ UNCHANGED XferVars

\* The caller of a running transfer cancels its context; the transfer still
\* holds its slot.
XferCancel ==
    /\ \E t \in Transfers :
        /\ mgr.downloadManager.st[t] = "running"
        /\ SetTransfer(t, "cancelling", {})
    /\ UNCHANGED XferVars

\* The transfer's reader sees the cancelled context: the transfer ends with the
\* context's error and gives its slot back.
XferCancelled ==
    /\ \E t \in Transfers :
        /\ mgr.downloadManager.st[t] = "cancelling"
        /\ SetTransfer(t, "cancelled", {})
    /\ UNCHANGED XferVars

\* What a transfer that holds a slot does to end.
XferProgress == XferFinish \/ XferFail \/ XferCancelled

\* A reload that changes the download bound only.
ReloadDownloads ==
    /\ mgr.upd["A"].pc # "upload"
    /\ \E maxDownloads \in ConcValues : mgr' = UpdateConfigDownloads(mgr, "A", maxDownloads, 0)
    /\ UNCHANGED XferVars

ReloadReturn ==
    /\ mgr.upd["A"].pc = "upload"
    /\ mgr' = UpdateConfigUploads(mgr, "A")
    /\ UNCHANGED XferVars

InitXfer ==
    /\ InitLocals
    /\ InitRefs
    /\ InitOther
    /\ \E maxConcurrentDownloads \in {3, 5} : InitManagers(maxConcurrentDownloads, 5)
    /\ InitStores(P2, {"c1", "c2"})

NextXfer ==
    \/ XferSubmit
    \/ XferStart
    \/ XferFinish
    \/ XferFail
    \/ XferCancel
    \/ XferCancelled
    \/ ReloadDownloads
    \/ ReloadReturn

\* A transfer that holds a slot is not stalled for ever: the attempts are
\* bounded (NewImageService passes MaxDownloadAttempts) and the reader of a
\* cancelled context returns, so the transfer ends one way or the other.
SpecXfer == InitXfer /\ [][NextXfer]_vars /\ WF_vars(XferProgress)

TypeOK ==
    /\ pc \in {"idle", "CommitBuildStep", "CommitImage", "GetRWLayer", "Mount", "TarStream",
               "Unmount", "ExportRelease",
               "handed", "parent", "Register", "Register.Read", "Register.done", "Marshal", "Create", "LogImageEvent",
               "SetBuiltLocally", "SetParent", "return", "return.2", "rwTar.Close", "done"}
    /\ rwTar \in {"nil", "set"}
    /\ rc.state \in {"None", "Open", "Closing", "Closed"}
    /\ \A n \in DOMAIN rwlayers : rwlayers[n].ref >= 1 /\ rwlayers[n].mounts >= 0
    /\ \A k \in DOMAIN layers : layers[k].ref >= 1
\* ------------------------------------------------------------------ properties
Called(op) == \E k \in 1..Len(calls) : calls[k] = op
Unmounts == Count(calls, "Unmount")
Releases == Count(calls, "ReleaseRWLayer")
Returned == pc = "done" /\ c.op \in {"CommitImage", "CommitBuildStep"}
\* CommitImage ran up to a return (CommitBuildStep did not stop before it).
CommitReturned == Returned /\ ret.err # "container not found"
CreateEvent(imgID) == [action |-> "create", id |-> imgID, name |-> imgID]
SetErrors == {"set built locally error", "set parent error"}

\* C1: CommitImage entered with a cancelled context returns the context's error
\* and an empty ID, never gets past its entry, calls no collaborator (no
\* GetRWLayer, Mount, Register, Create, event, SetBuiltLocally, SetParent) and
\* leaves every store as it was.
C1_CancelledCommitHasNoEffect ==
    ctxDone =>
        /\ pc \in {"CommitBuildStep", "CommitImage", "done"}
        /\ Range(calls) \subseteq {"containers.Get"}
        /\ Snapshot = pre
        /\ CommitReturned => ret = [id |-> NoImage, err |-> "context canceled"]

C1_Witness ==
    /\ pc = "done" /\ ctxDone /\ c.op = "CommitImage" /\ c.ContainerID = "c1"
    /\ ret.err = "context canceled"

\* C2: once exportContainerRw has handed out its read-closer, whatever reads
\* and Close calls its clients issue, concurrently or not, Unmount and
\* ReleaseRWLayer are each called at most once; neither is called while the
\* read-closer is open, which it is only as long as no Close was called and
\* the end of the stream was not read; and once the closer has run both were
\* called exactly once and the RW layer has the references and mounts it had
\* before the export.
C2_CloserRunsExactlyOnce ==
    rc.state # "None" =>
        /\ Unmounts <= 1 /\ Releases <= 1
        /\ rc.state = "Open" =>
              /\ Unmounts = 0 /\ Releases = 0
              /\ \A t \in HThreads : hpc[t].closes = 0
        /\ rc.state = "Closed" =>
              /\ Unmounts = 1 /\ Releases = 1
              /\ rwlayers = pre.rwlayers

C2_Witness ==
    /\ pc = "handed" /\ rc.state = "Closed"
    /\ hpc["closer1"].closes >= 1 /\ hpc["closer2"].closes >= 1
    /\ hpc["reader"].reads >= 1
    /\ Unmounts = 1 /\ Releases = 1

\* C3: whenever CommitImage returns after exportContainerRw succeeded, on
\* success or on any error, Unmount and ReleaseRWLayer were each called exactly
\* once, the read-closer is closed, and the RW layer has the references and
\* mounts it had before the call.
C3_CommitLeavesNoMount ==
    (Returned /\ rwTar = "set") =>
        /\ Unmounts = 1 /\ Releases = 1
        /\ rc.state = "Closed"
        /\ rwlayers = pre.rwlayers

C3_Witness ==
    /\ Returned /\ rwTar = "set" /\ ret.err = "register error" /\ ~rc.eof
    /\ Unmounts = 1 /\ Releases = 1

\* C4: a successful CommitImage on a parent image P returns the ID of an image
\* of the store whose RootFS is P's RootFS followed by the DiffID of the layer
\* it registered, and whose parent link is P's ID.
C4_ChildExtendsParent ==
    (Returned /\ ret.err = "nil" /\ c.ParentImageID # NoImage) =>
        /\ ret.id \in DOMAIN images
        /\ c.ParentImageID \in DOMAIN pre.images
        /\ l \in DOMAIN layers
        /\ images[ret.id].rootfs =
              Append(pre.images[c.ParentImageID].rootfs, layers[l].diffID)
        /\ ChainID(images[ret.id].rootfs) = l
        /\ images[ret.id].parent = c.ParentImageID

C4_Witness ==
    /\ Returned /\ ret.err = "nil" /\ c.ParentImageID = P2
    /\ Len(images[ret.id].rootfs) = 3
    /\ images[ret.id].parent = P2

\* C5: a CommitImage that returns successfully has emitted exactly one create
\* event, which carries the ID it returns; and whenever the call has emitted
\* the event, imageStore.Create was called before and the image is in the store.
C5_OneCreateEventAfterCreate ==
    /\ (Returned /\ ret.err = "nil") =>
          /\ Len(events) = pre.nevents + 1
          /\ Count(calls, "LogImageEvent") = 1
          /\ Last(events) = CreateEvent(ret.id)
    /\ Called("LogImageEvent") =>
          /\ Called("Create")
          /\ IndexOf(calls, "Create") < IndexOf(calls, "LogImageEvent")
          /\ Last(events).id \in DOMAIN images

C5_Witness ==
    /\ Returned /\ ret.err = "nil" /\ ret.id \notin DOMAIN pre.images
    /\ Last(events) = CreateEvent(ret.id)

\* C6 as stated: a CommitImage that returns an error has emitted no create event.
C6_NoEventOnAnyError ==
    (Returned /\ ret.err # "nil") => Len(events) = pre.nevents

\* C6, amended: a CommitImage that returns an error has emitted no create event
\* unless the step that failed is SetBuiltLocally or SetParent; in these two
\* cases it has emitted exactly one, for the image record it created.
C6_EventOnErrorOnlyAfterCreate ==
    (Returned /\ ret.err # "nil") =>
        IF ret.err \in SetErrors
        THEN /\ Len(events) = pre.nevents + 1
             /\ Last(events) = CreateEvent(id)
             /\ id \in DOMAIN images
        ELSE Len(events) = pre.nevents

C6_Witness ==
    /\ Returned /\ ret.err = "create error" /\ Called("Create")
    /\ Len(events) = pre.nevents

\* C7: when SetBuiltLocally or SetParent fails, CommitImage returns the error
\* with an empty image ID and the record imageStore.Create made is still in the
\* image store, with the RootFS it was created with; no image the store held
\* when the call started is gone.
C7_NoRollback ==
    /\ (Returned /\ ret.err \in SetErrors) =>
          /\ ret.id = NoImage
          /\ id \in DOMAIN images
          /\ images[id].rootfs = config.rootfs
    /\ pc # "idle" => DOMAIN pre.images \subseteq DOMAIN images

C7_Witness ==
    /\ Returned /\ ret.err = "set parent error" /\ ret.id = NoImage
    /\ id \in DOMAIN images /\ id \notin DOMAIN pre.images

\* C8: when ParentImageID is not empty and the image store has no such image, a
\* CommitImage that got its export fails with the image store's not-found
\* error; and no CommitImage with such a parent registers a layer, creates an
\* image record or emits an event: layers, images and events stay as they were.
C8_MissingParent ==
    (pc \notin {"idle", "CommitBuildStep"} /\ c.ParentImageID # NoImage
        /\ c.ParentImageID \notin DOMAIN pre.images) =>
        /\ ~Called("Register") /\ ~Called("Create") /\ ~Called("LogImageEvent")
        /\ layers = pre.layers /\ images = pre.images /\ Len(events) = pre.nevents
        /\ (Returned /\ rwTar = "set") => ret = [id |-> NoImage, err |-> "ErrImageNotFound"]
        /\ Returned => ret.err # "nil"

C8_Witness ==
    /\ Returned /\ c.op = "CommitImage" /\ c.ParentImageID = UnknownImage
    /\ ret.err = "ErrImageNotFound" /\ Called("imageStore.Get")

\* C9: with an empty ParentImageID, CommitImage never calls imageStore.Get and
\* never SetParent; the layer it registers sits on the empty chain ID; and the
\* image a successful call returns has exactly one diff ID in its RootFS and no
\* parent link.
C9_EmptyParent ==
    (pc \notin {"idle", "CommitBuildStep"} /\ c.op # "exportContainerRw"
        /\ c.ParentImageID = NoImage) =>
        /\ ~Called("imageStore.Get") /\ ~Called("SetParent")
        /\ (l # NoChain /\ l \in DOMAIN layers) => layers[l].parent = NoChain
        /\ l # NoChain => l \in DiffIDs
        /\ (Returned /\ ret.err = "nil") =>
              /\ Len(images[ret.id].rootfs) = 1
              /\ images[ret.id].parent = NoImage

C9_Witness ==
    /\ Returned /\ ret.err = "nil" /\ c.op = "CommitImage" /\ c.ParentImageID = NoImage
    /\ Called("Register") /\ Len(images[ret.id].rootfs) = 1

\* C10: CommitBuildStep for a container ID that is not in the container index
\* returns a not-found error and an empty ID without entering CommitImage:
\* containers.Get is the only call it makes and every store stays as it was.
C10_BuildStepUnknownContainer ==
    (c.op = "CommitBuildStep" /\ c.ContainerID \notin DOMAIN containers) =>
        /\ pc \in {"CommitBuildStep", "done"}
        /\ Snapshot = pre
        /\ pc = "done" =>
              /\ ret = [id |-> NoImage, err |-> "container not found"]
              /\ calls = <<"containers.Get">>

C10_Witness ==
    /\ pc = "done" /\ c.op = "CommitBuildStep" /\ c.ContainerID = "c2"
    /\ "c2" \notin DOMAIN containers /\ "c2" \in DOMAIN rwlayers
    /\ ~ctxDone /\ ret.err = "container not found"
\* C11: for a container of the index, CommitBuildStep runs CommitImage on the
\* caller's config with ContainerMountLabel, ContainerOS and ParentImageID
\* replaced by the container record's mount label, OS and image ID, whether the
\* container runs or not: from the entry of CommitImage on, the config is the
\* caller's with these three fields replaced, and the image a successful call
\* returns has the record's OS, the RootFS of the record's image followed by
\* the new DiffID, and the record's image as its parent.
C11_BuildStepUsesContainerRecord ==
    (c.op = "CommitBuildStep" /\ pc \notin {"idle", "CommitBuildStep"}
        /\ req.ContainerID \in DOMAIN containers) =>
        LET ctr == containers[req.ContainerID] IN
        /\ c = [req EXCEPT !.ContainerMountLabel = ctr.MountLabel,
                           !.ContainerOS = ctr.OS,
                           !.ParentImageID = ctr.ImageID]
        /\ (ctr.ImageID = NoImage) => ~Called("imageStore.Get") /\ ~Called("SetParent")
        /\ (pc = "done" /\ ret.err = "nil") =>
              /\ images[ret.id].os = ctr.OS
              /\ images[ret.id].container = req.ContainerID
              /\ images[ret.id].parent = ctr.ImageID
              /\ Front(images[ret.id].rootfs) =
                    (IF ctr.ImageID = NoImage THEN <<>> ELSE pre.images[ctr.ImageID].rootfs)

C11_Witness ==
    /\ pc = "done" /\ c.op = "CommitBuildStep" /\ ret.err = "nil"
    /\ req.ContainerID = "c2" /\ "c2" \in DOMAIN containers
    /\ ~containers["c2"].Running
    /\ req.ContainerMountLabel # containers["c2"].MountLabel
    /\ req.ContainerOS # containers["c2"].OS
    /\ req.ParentImageID = P1 /\ containers["c2"].ImageID = P2
    /\ images[ret.id].parent = P2

\* ------------------------------------------------------------------ disk usage claims
\* The images the walk must not skip: referenced, or without children.
\* The chain IDs of the prefixes of a RootFS diff-ID list.
PrefixChains(diffIDs) == {ChainID(SubSeq(diffIDs, 1, k)) : k \in 1..Len(diffIDs)}

\* The number of (walked image, prefix of its RootFS) pairs whose chain ID is chain.
RefCount(imgs, walked, chain) ==
    Cardinality(UNION {{<<i, k>> : k \in {n \in 1..Len(imgs[i].rootfs) :
                                            ChainID(SubSeq(imgs[i].rootfs, 1, n)) = chain}} :
                        i \in walked})

\* The chain IDs of every prefix of every RootFS of the image store.
Chains(imgs) == UNION {PrefixChains(imgs[i].rootfs) : i \in DOMAIN imgs}

RECURSIVE SumSizes(_, _)
SumSizes(S, ls) ==
    IF S = {} THEN 0
    ELSE LET k == CHOOSE x \in S : TRUE IN DiffSize(ls[k]) + SumSizes(S \ {k}, ls)

DUVisited == DOMAIN du.allLayers \ du.todo
DUReferenced == {k \in DOMAIN du.allLayers : RefCount(du.images, du.walked, k) > 0}

\* C12: an uncancelled ImageDiskUsage returns the sum of DiffSize over the layers of
\* the layer map whose chain ID has a positive count in the reference map; the
\* reference map counts, per chain ID, the prefixes of the RootFS of the non-skipped
\* images; a layer whose chain ID is not in the map adds nothing.
C12_DiskUsageIsSumOfReferencedLayers ==
    /\ (du.pc \in {"Map", "range", "done"}) =>
          /\ DOMAIN du.layerRefs
                = {ch \in Chains(du.images) : RefCount(du.images, du.walked, ch) > 0}
          /\ \A ch \in DOMAIN du.layerRefs :
                du.layerRefs[ch] = RefCount(du.images, du.walked, ch)
    /\ (du.pc = "done" /\ du.err = "nil") =>
          du.allLayersSize = SumSizes(DUReferenced, du.allLayers)

C12_Witness ==
    /\ du.pc = "done" /\ du.err = "nil"
    /\ \E k \in DOMAIN du.allLayers : k \notin DOMAIN du.layerRefs /\ DiffSize(du.allLayers[k]) > 0
    /\ \E k \in DOMAIN du.allLayers : k \in DOMAIN du.layerRefs
    /\ du.allLayersSize > 0

\* Every image of the copy has had its turn, and the count of an image's own
\* chain ID is the number of walked images whose RootFS goes through it; a
\* layer adds its size once, however many walked images share it.
DUWalkedOnce ==
    (du.pc \in {"Map", "range", "done"}) =>
        /\ du.walk = {}
        /\ du.walked \subseteq DOMAIN du.images
        /\ \A i \in DOMAIN du.images :
              LET ch == ChainID(du.images[i].rootfs)
                  through == {j \in du.walked :
                                 /\ Len(du.images[j].rootfs) >= Len(du.images[i].rootfs)
                                 /\ SubSeq(du.images[j].rootfs, 1, Len(du.images[i].rootfs))
                                        = du.images[i].rootfs}
              IN  IF through = {} THEN ch \notin DOMAIN du.layerRefs
                  ELSE ch \in DOMAIN du.layerRefs /\ du.layerRefs[ch] = Cardinality(through)
        /\ du.allLayersSize = SumSizes(DUVisited \cap DOMAIN du.layerRefs, du.allLayers)

\* A turn of the loop over the image copy ends with its image skipped exactly
\* when, at the instant the turn decides, the reference store has no name for
\* the image and the image store has a child of it; otherwise the image is
\* walked.
DUSkipsExactly ==
    /\ (du.pc = "images" /\ du'.walk # du.walk /\ du'.pc = "images") =>
          \A i \in du.walk \ du'.walk :
              /\ i \in du'.walked
              /\ ~(References(refs, i) = {} /\ Children(images, i) # {})
    /\ (du.pc = "Children" /\ du' # du) =>
          /\ du'.pc = "images" /\ du'.walk = du.walk
          /\ du'.walked \ du.walked
                = IF References(refs, du.cur) = {} /\ Children(images, du.cur) # {}
                  THEN {} ELSE {du.cur}

\* C13: getLayerRefs skips exactly the images that have no name in the
\* reference store and at least one child, and walks every other image of the
\* copy: the count of an image's own chain ID is the number of walked images
\* whose RootFS goes through it. A layer shared by several walked images adds
\* its DiffSize to the total once.
C13_SkipsExactlyUnnamedParents == []DUWalkedOnce /\ [][DUSkipsExactly]_vars

\* C14: an image with a reference or with a child is live: after an uncancelled
\* ImageDiskUsage every layer of its RootFS chain that is in the layer map is in
\* the total, the layers of an unreferenced parent through a descendant.
C14_LiveImagesAreCounted ==
    (du.pc = "done" /\ du.err = "nil") =>
        \A i \in DOMAIN du.images :
            (References(refs, i) # {} \/ Children(images, i) # {}) =>
                LET chain == PrefixChains(du.images[i].rootfs) \cap DOMAIN du.allLayers
                IN  /\ chain \subseteq DOMAIN du.layerRefs
                    /\ du.allLayersSize >= SumSizes(chain, du.allLayers)

\* C15: a cancellation seen during the scan ends ImageDiskUsage with the context's
\* error and the sum over the layers visited before; the sum is at least 0 and at
\* most the uncancelled total on the same snapshots. The context is looked at once
\* per layer, before that layer's size is added: a layer is left unvisited, and
\* nothing is added once the context is cancelled.
C15_CancelReturnsPartialSum ==
    /\ [](/\ (du.pc = "done" /\ du.err = "context canceled") =>
                /\ du.ctxDone
                /\ du.todo # {}
                /\ du.allLayersSize = SumSizes(DUVisited \cap DOMAIN du.layerRefs, du.allLayers)
                /\ du.allLayersSize >= 0
                /\ du.allLayersSize <= SumSizes(DUReferenced, du.allLayers)
          /\ (du.pc = "done" /\ du.err = "nil") => du.todo = {})
    /\ [][(du.pc = "range" /\ du.ctxDone /\ du' # du) =>
             /\ du'.allLayersSize = du.allLayersSize
             /\ (du.todo # {} => du'.pc = "done" /\ du'.err = "context canceled")]_vars

C15_Witness ==
    /\ du.pc = "done" /\ du.err = "context canceled" /\ ~du.entry
    /\ du.allLayersSize > 0
    /\ du.allLayersSize < SumSizes(DUReferenced, du.allLayers)

\* C16 as stated: a call entered with a cancelled context returns the cancellation
\* error, whatever the layer store holds.
C16_CancelledAtEntryAlwaysFails ==
    (du.pc = "done" /\ du.entry) => du.err = "context canceled"

\* C16: the context is first looked at in the scan's first iteration. A call entered
\* with a cancelled context returns the cancellation error and size 0 when the
\* layer map has a layer, and size 0 without an error when the map is empty.
C16_CancelledAtEntryFailsOnFirstLayer ==
    (du.pc = "done" /\ du.entry) =>
        /\ du.allLayersSize = 0
        /\ du.err = (IF DOMAIN du.allLayers = {} THEN "nil" ELSE "context canceled")
        /\ du.err = "context canceled" => du.todo = DOMAIN du.allLayers

C16_Witness ==
    /\ du.pc = "done" /\ du.entry /\ du.err = "context canceled"
    /\ DOMAIN du.allLayers # {}
    /\ DOMAIN du.layerRefs # {}

\* ------------------------------------------------------------------ release claims
\* C17: ImageService.ReleaseLayer returns nil when ReleaseRWLayer succeeds or fails
\* with ErrMountDoesNotExist or a file-not-exist error, a wrapped error for any
\* other failure, and for a value that is not a layer-store RWLayer an error
\* without calling the layer store.
C17_ReleaseLayerErrors ==
    /\ rel.last.kind = "layer.RWLayer" =>
          /\ rel.last.called
          /\ rel.last.storeErr \in StoreErrors
          /\ rel.last.storeErr \in {"nil", "ErrMountDoesNotExist", "os.ErrNotExist"}
                => rel.last.err = "nil"
          /\ rel.last.storeErr = "driver error"
                => rel.last.err = "driver failed to remove root filesystem"
    /\ rel.last.kind = "other" =>
          /\ ~rel.last.called
          /\ ~rel.last.changed
          /\ rel.last.err = "unexpected RWLayer type"

C17_Witness ==
    /\ rel.last.kind = "layer.RWLayer"
    /\ rel.last.storeErr = "os.ErrNotExist"
    /\ rel.last.err = "nil"
    /\ rel.last.h \notin DOMAIN rwlayers
    /\ rel.last.k >= 1 /\ rel.got.err = "nil"

\* C18: a release of a reference that an earlier ReleaseLayer call already
\* released returns no error and changes nothing: the count is not decremented
\* again, stays at 1 or more for a layer that is there, and no storage is removed.
C18_SecondReleaseChangesNothing ==
    (rel.last.kind = "layer.RWLayer" /\ rel.last.repeat) =>
        /\ rel.last.err = "nil"
        /\ ~rel.last.changed
        /\ <<rel.last.h, rel.last.k>> \notin rel.held
        /\ \A n \in DOMAIN rwlayers : rwlayers[n].ref >= 1

C18_Witness ==
    /\ rel.last.kind = "layer.RWLayer" /\ rel.last.repeat
    /\ rel.last.h = "c1"
    /\ rc.state = "Open" /\ rc.name = "c1"
    /\ "c1" \in DOMAIN rwlayers /\ rwlayers["c1"].ref = 1

\* The commit holds the reference it took with GetRWLayer until its closer has
\* called ReleaseRWLayer.
CommitHolds(n) ==
    /\ c.ContainerID = n
    /\ \/ pc \in {"Mount", "TarStream", "Unmount", "ExportRelease"}
       \/ /\ rc.name = n
          /\ \/ rc.state = "Open"
             \/ /\ rc.state = "Closing"
                /\ \/ \E t \in HThreads : /\ hpc[t].at = "closer"
                                          /\ hpc[t].i <= IndexOf(closerOps, "ReleaseRWLayer")
                   \/ /\ pc \in {"Register.Read", "rwTar.Close"}
                      /\ rc.step < IndexOf(closerOps, "ReleaseRWLayer")

Holders(n) ==
    Cardinality({h \in rel.held : h[1] = n}) + (IF CommitHolds(n) THEN 1 ELSE 0)

\* C19: the storage of an RW layer is there as long as a reference is held, by the
\* container or by a commit from its export until its closer has released: the
\* count is at least the number of holders, so a ReleaseLayer by container removal
\* leaves the storage under an open tar stream. A step removes the storage only
\* from a count of 1, and removed storage does not come back.
C19_StorageRemovedAtZeroOnly ==
    /\ [](\A n \in {"c1", "c2"} :
             IF n \in DOMAIN rwlayers
             THEN rwlayers[n].ref >= 1 /\ rwlayers[n].ref >= Holders(n)
             ELSE Holders(n) = 0)
    /\ [][\A n \in {"c1", "c2"} :
             /\ n \in DOMAIN rwlayers' => n \in DOMAIN rwlayers
             /\ (n \in DOMAIN rwlayers /\ n \notin DOMAIN rwlayers') => rwlayers[n].ref = 1
             /\ (n \in DOMAIN rwlayers /\ n \in DOMAIN rwlayers')
                   => rwlayers'[n].ref >= rwlayers[n].ref - 1]_vars

C19_Witness ==
    /\ rc.state = "Open" /\ rc.name = "c1"
    /\ rel.last.kind = "layer.RWLayer" /\ rel.last.h = "c1" /\ rel.last.changed
    /\ \A h \in rel.held : h[1] # "c1"
    /\ "c1" \in DOMAIN rwlayers /\ rwlayers["c1"].ref = 1

\* ------------------------------------------------------------------ configuration claims
\* C20: UpdateConfig calls SetConcurrency on the download manager exactly when
\* maxDownloads is not 0 and on the upload manager exactly when maxUploads is not
\* 0. Its first statement leaves the download manager with maxDownloads, or with
\* the bound it had when maxDownloads is 0, and does not touch the upload
\* manager; its second statement does the same for the upload manager with
\* maxUploads, whatever maxDownloads is and whatever another reload does meanwhile.
C20_ZeroKeepsBound ==
    /\ [](\A r \in Reloads :
            /\ mgr.upd[r].pc # "idle" =>
                  ("downloadManager" \in mgr.upd[r].calls) <=> (mgr.upd[r].maxDownloads # 0)
            /\ mgr.upd[r].pc = "returned" =>
                  ("uploadManager" \in mgr.upd[r].calls) <=> (mgr.upd[r].maxUploads # 0)
            /\ mgr.upd[r].pc = "upload" => "uploadManager" \notin mgr.upd[r].calls)
    /\ [][\A r \in Reloads :
            /\ (mgr.upd[r].pc # "upload" /\ mgr'.upd[r].pc = "upload") =>
                  /\ mgr'.downloadManager.limit =
                        (IF mgr'.upd[r].maxDownloads = 0 THEN mgr.downloadManager.limit
                         ELSE mgr'.upd[r].maxDownloads)
                  /\ mgr'.uploadManager = mgr.uploadManager
            /\ (mgr.upd[r].pc = "upload" /\ mgr'.upd[r].pc = "returned") =>
                  /\ mgr'.uploadManager.limit =
                        (IF mgr.upd[r].maxUploads = 0 THEN mgr.uploadManager.limit
                         ELSE mgr.upd[r].maxUploads)
                  /\ mgr'.downloadManager = mgr.downloadManager
                  /\ mgr'.upd[r].maxDownloads = mgr.upd[r].maxDownloads
                  /\ mgr'.upd[r].maxUploads = mgr.upd[r].maxUploads]_vars

\* A reload with maxDownloads 0 has returned: it found the upload manager with
\* another bound and left the download manager with the one it found. A second
\* reload, which had set the download bound before, is still between its two
\* statements.
C20_Witness ==
    /\ mgr.upd["A"].pc = "returned"
    /\ mgr.upd["A"].maxDownloads = 0 /\ mgr.upd["A"].maxUploads # 0
    /\ mgr.upd["A"].calls = {"uploadManager"}
    /\ mgr.downloadManager.limit = mgr.upd["A"].before.down
    /\ mgr.uploadManager.limit = mgr.upd["A"].maxUploads
    /\ mgr.upd["A"].before.up # mgr.upd["A"].maxUploads
    /\ mgr.upd["B"].pc = "upload"
    /\ mgr.upd["B"].maxDownloads = mgr.downloadManager.limit
    /\ mgr.upd["B"].before.down # mgr.downloadManager.limit

\* ---- C21 ----

\* The reload that was the last to pass the download manager.
LastReload == mgr.upd["A"]

StartedNow(t) ==
    mgr.downloadManager.st[t] = "waiting" /\ mgr'.downloadManager.st[t] = "running"

Ended(t) == mgr.downloadManager.st[t] \in {"done", "failed", "cancelled"}
HoldsSlot(t) == t \in Running(mgr.downloadManager)

\* The step is one of a reload (UpdateConfig's call of SetConcurrency or its
\* return).
ReloadStep == mgr'.upd # mgr.upd

C21_WitnessOwnCause ==
    /\ LastReload.pc = "returned" /\ LastReload.maxDownloads = 2
    /\ LastReload.before.down = 5
    /\ Cardinality(mgr.downloadManager.inflight) = 3
    /\ \E t \in mgr.downloadManager.inflight : mgr.downloadManager.st[t] = "failed"
    /\ \E t \in mgr.downloadManager.inflight : mgr.downloadManager.st[t] = "cancelled"
    /\ \E t \in mgr.downloadManager.inflight : mgr.downloadManager.st[t] = "running"
    /\ mgr.downloadManager.since \cap Running(mgr.downloadManager) # {}

\* ---- Worker.FromRemote: remote layers imported through the download manager ----

DLVars == <<pc, ctxDone, c, Locals, ret, rc, rwlayers, images, events, containers, calls, pre,
            clock, ncalls, hpc, req, refs, du, rel, mgr, api, bk>>

\* A remote descriptor: the blob digest and the "containerd.io/uncompressed"
\* annotation (0: the annotation is missing; -1: it is set to a string that is no
\* digest).
Desc(blob, diff) == [blob |-> blob, diff |-> diff]
RemoteLists ==
    {<<>>, <<Desc(11, 1)>>, <<Desc(11, 1), Desc(12, 2)>>, <<Desc(22, 2), Desc(21, 1)>>,
     <<Desc(13, 0)>>, <<Desc(14, -1), Desc(13, 0)>>}

Event(ch, op, pos, chain, parentChain) ==
    [ch |-> ch, op |-> op, pos |-> pos, chain |-> chain, parent |-> parentChain]

\* getLayers(descs): the descriptors in order; the first one whose annotation
\* is missing, or is set and does not parse as a digest, ends the loop with its
\* error.
RECURSIVE getLayers(_)
getLayers(descs) ==
    IF descs = <<>> THEN [err |-> "nil", rootfs |-> <<>>]
    ELSE IF Head(descs).diff = 0
    THEN [err |-> "missing uncompressed digest", rootfs |-> <<>>]
    ELSE IF Head(descs).diff \notin DiffIDs
    THEN [err |-> "invalid checksum digest format", rootfs |-> <<>>]
    ELSE LET rest == getLayers(Tail(descs)) IN
         IF rest.err # "nil" THEN rest
         ELSE [err |-> "nil",
               rootfs |-> <<[Blob |-> Head(descs).blob, Diff |-> Head(descs).diff]>>
                          \o rest.rootfs]

\* Variant: the mapping is recorded under the descriptor's own diffID field and
\* points at the diffID instead of the blob digest.
RegisteredStoresDiffID(meta, ld, diffID) ==
    [meta EXCEPT ![ld.diffID] = @ \cup {diffID}]

\* layerDescriptor.Registered(diffID): V2MetadataService.Add(diffID, {Digest: desc.Digest}).
Registered(meta, ld, diffID) ==
    [meta EXCEPT ![diffID] = @ \cup {ld.desc}]

\* cache.Manager.GetByBlob(desc{uncompressed: diffID}, parent): the ref of the
\* layer chain parent + diffID, or an error.
GetByBlob(diffID, parentRef, fails) ==
    IF fails THEN [err |-> "GetByBlob", ref |-> NoChain]
    ELSE [err |-> "nil", ref |-> parentRef * Base + diffID]

\* Variant: the parent ref is released before it is passed on.
getRefReleasesFirst(at, k, n, err) ==
    IF at = "enter" THEN [pc |-> IF k > 1 THEN "Release" ELSE "GetByBlob", k |-> k]
    ELSE IF at = "Release" THEN [pc |-> "GetByBlob", k |-> k]
    ELSE IF err # "nil" THEN [pc |-> "error", k |-> k]
    ELSE IF k = n THEN [pc |-> "result", k |-> k]
    ELSE [pc |-> "Release", k |-> k + 1]

\* Variant: the parent ref is released only when GetByBlob succeeded.
getRefLeaksOnError(at, k, n, err) ==
    IF at = "enter" THEN [pc |-> "GetByBlob", k |-> k]
    ELSE IF at = "GetByBlob" /\ k > 1 /\ err = "nil" THEN [pc |-> "Release", k |-> k]
    ELSE IF err # "nil" THEN [pc |-> "error", k |-> k]
    ELSE IF k = n THEN [pc |-> "result", k |-> k]
    ELSE [pc |-> "GetByBlob", k |-> k + 1]

\* Worker.getRef(diffIDs[:n]), one call on the cache manager at a time: where
\* it goes on from at, in the invocation for diffIDs[:k]. The recursion goes down
\* to diffIDs[:1] before anything is called, so the invocations make their calls
\* from k = 1 upwards: GetByBlob of diffIDs[k-1] on the parent, then, for k > 1,
\* the deferred parent.Release. An error is handed up ("error") through the
\* invocations above, which have deferred nothing yet; the ref of the invocation
\* for n is the result ("result"), the ref of a lower one is the parent of the
\* next.
getRef(at, k, n, err) ==
    IF at = "enter" THEN [pc |-> "GetByBlob", k |-> k]
    ELSE IF at = "GetByBlob" /\ k > 1 THEN [pc |-> "Release", k |-> k]
    ELSE IF err # "nil" THEN [pc |-> "error", k |-> k]
    ELSE IF k = n THEN [pc |-> "result", k |-> k]
    ELSE [pc |-> "GetByBlob", k |-> k + 1]

\* The references of a Download, dropped top layer first.
RECURSIVE ReleaseAll(_, _)
ReleaseAll(ls, taken) ==
    IF taken = <<>> THEN ls ELSE ReleaseAll(ReleaseLayer(ls, Last(taken)), Front(taken))

\* The release function Download returns: the first invocation drops the
\* references the Download took, later ones do nothing.
releaseFunc(ls, call) ==
    [ls |-> IF call.released THEN ls ELSE ReleaseAll(ls, call.taken),
     call |-> [call EXCEPT !.released = TRUE, !.nrel = @ + 1]]

\* A deferred call of FromRemote: the closure that deletes the blobs, release(),
\* or ref.Release of the ref of a position.
Deferred(op, pos, ref) == [op |-> op, pos |-> pos, ref |-> ref]
\* The deferred calls that are left to run: a closure whose loop over the blobs
\* has come to its end is finished.
Settle(defers, call) ==
    IF defers # <<>> /\ Last(defers).op = "Delete" /\ call.del >= Len(call.layers)
    THEN Front(defers) ELSE defers
Blobs(descs) == {descs[j].blob : j \in DOMAIN descs}

\* Variant: the deferred release() of the Download is not run.
FromRemoteReturnNoRelease(call, ref, err) ==
    LET left == Settle(SelectSeq(call.defers, LAMBDA d : d.op # "release()"), call) IN
    [call EXCEPT !.pc = IF left = <<>> THEN "done" ELSE "defers",
                 !.ref = ref, !.err = err, !.defers = left]

\* A return of FromRemote with (ref, err): the deferred calls are what is left
\* to run, last registered first.
FromRemoteReturn(call, ref, err) ==
    LET left == Settle(call.defers, call) IN
    [call EXCEPT !.pc = IF left = <<>> THEN "done" ELSE "defers",
                 !.ref = ref, !.err = err, !.defers = left]

\* FromRemote up to the Download call: getLayers, the layer descriptors, the
\* deferred closure that deletes the blobs.
FromRemoteCall(ch) ==
    /\ dl.call[ch].pc = "idle"
    /\ ch = "B" => dl.call["A"].pc # "idle"
    /\ \E descs \in RemoteLists :
        LET g == getLayers(descs) IN
        IF g.err # "nil"
        THEN dl' = [dl EXCEPT !.call[ch] = [@ EXCEPT !.pc = "done", !.descs = descs,
                                                     !.err = g.err]]
        ELSE dl' = [dl EXCEPT !.call[ch] =
                      [@ EXCEPT !.pc = "Download", !.descs = descs,
                                !.layers = [j \in DOMAIN g.rootfs |->
                                              [desc |-> g.rootfs[j].Blob,
                                               diffID |-> g.rootfs[j].Diff]],
                                !.defers = <<Deferred("Delete", 0, NoChain)>>]]
    /\ UNCHANGED layers
    /\ UNCHANGED DLVars

\* layerDescriptor.Download, its first call on the content store:
\* contentutil.Copy(ctx, ContentStore(), provider, desc) puts the blob into the
\* store, or fails and leaves the store as it is.
Copy(content, ld, fails) ==
    IF fails THEN [err |-> "Copy", content |-> content]
    ELSE [err |-> "nil", content |-> content \cup {ld.desc}]

\* layerDescriptor.Download, its second call: ContentStore().ReaderAt(ctx, desc)
\* opens the blob. It fails when the store does not hold the blob (any more), or
\* on an error of the store; the store is left as it is.
ReaderAt(content, ld, fails) ==
    IF fails \/ ld.desc \notin content THEN "ReaderAt" ELSE "nil"

\* The transfer of the next position has failed: the Download goes on to give
\* up what the earlier positions took.
TransferFailed(ch, call) ==
    [call EXCEPT !.pc = "Failed",
                 !.log = Append(@, Event(ch, "Failed", Len(call.taken) + 1, NoChain, NoChain))]

\* DownloadManager.Download begins the transfer of the next position: the
\* descriptor's Download copies the blob into the content store. With no layer
\* to transfer Download returns at once and FromRemote defers release().
Download(ch) ==
    /\ dl.call[ch].pc = "Download"
    /\ LET call == dl.call[ch] IN
       IF call.layers = <<>>
       THEN dl' = [dl EXCEPT !.call[ch] =
                     [call EXCEPT !.pc = "loop", !.hasRelease = TRUE,
                                  !.defers = Append(@, Deferred("release()", 0, NoChain))]]
       ELSE \E fails \in BOOLEAN :
              LET d == Copy(dl.content, call.layers[Len(call.taken) + 1], fails) IN
              dl' = [dl EXCEPT !.call[ch] = IF d.err # "nil" THEN TransferFailed(ch, call)
                                            ELSE [call EXCEPT !.pc = "ReaderAt"],
                               !.content = d.content]
    /\ UNCHANGED layers
    /\ UNCHANGED DLVars

\* The descriptor's Download opens the blob it copied, in the content store as
\* it is by now.
DownloadReaderAt(ch) ==
    /\ dl.call[ch].pc = "ReaderAt"
    /\ LET call == dl.call[ch] IN
       \E fails \in BOOLEAN :
          dl' = [dl EXCEPT !.call[ch] =
                   IF ReaderAt(dl.content, call.layers[Len(call.taken) + 1], fails) # "nil"
                   THEN TransferFailed(ch, call)
                   ELSE [call EXCEPT !.pc = "Register"]]
    /\ UNCHANGED layers
    /\ UNCHANGED DLVars

\* The transfer registers the fetched layer on the chain of the position
\* before it, or fails.
DownloadRegister(ch) ==
    /\ dl.call[ch].pc = "Register"
    /\ LET call == dl.call[ch]
           pos == Len(call.taken) + 1
           parentChain == IF pos = 1 THEN NoChain ELSE call.taken[pos - 1]
           r == Register(layers, call.layers[pos].diffID, parentChain) IN
       \E ok \in BOOLEAN :
          IF ok /\ r.err = "nil"
          THEN /\ layers' = r.ls
               /\ dl' = [dl EXCEPT !.call[ch] =
                           [call EXCEPT !.taken = Append(@, r.chain),
                                        !.pc = "Registered",
                                        !.log = Append(@, Event(ch, "Register", pos, r.chain,
                                                                parentChain))]]
          ELSE /\ layers' = layers
               /\ dl' = [dl EXCEPT !.call[ch] = TransferFailed(ch, call)]
    /\ UNCHANGED DLVars

\* Variant: a failed Download keeps the references it took.
DownloadFailsKeeps(ch) ==
    /\ dl.call[ch].pc = "Failed"
    /\ layers' = layers
    /\ dl' = [dl EXCEPT !.call[ch] =
                 [@ EXCEPT !.pc = "Download.err", !.hasRelease = TRUE, !.released = TRUE,
                           !.nrel = @ + 1]]
    /\ UNCHANGED DLVars

\* A Download whose transfer failed gives up its partial results: what the
\* earlier positions took is released through the release function, before
\* Download returns the error.
DownloadFails(ch) ==
    /\ dl.call[ch].pc = "Failed"
    /\ LET r == releaseFunc(layers, [dl.call[ch] EXCEPT !.hasRelease = TRUE]) IN
        /\ layers' = r.ls
        /\ dl' = [dl EXCEPT !.call[ch] = [r.call EXCEPT !.pc = "Download.err"]]
    /\ UNCHANGED DLVars

\* FromRemote: Download returned an error, which FromRemote returns; release()
\* is not deferred.
FromRemoteDownloadErr(ch) ==
    /\ dl.call[ch].pc = "Download.err"
    /\ dl' = [dl EXCEPT !.call[ch] = FromRemoteReturn(dl.call[ch], NoChain, "Download")]
    /\ UNCHANGED layers
    /\ UNCHANGED DLVars

\* The descriptor of the registered layer is notified. After the last position
\* Download returns the RootFS it rebuilt from the top layer's chain: one DiffID
\* per requested layer, or fewer when the chain it walked back was shorter;
\* FromRemote defers release().
DownloadRegistered(ch) ==
    /\ dl.call[ch].pc = "Registered"
    /\ LET call == dl.call[ch]
           pos == Len(call.taken)
           ld == call.layers[pos]
           last == pos = Len(call.layers)
           full == [j \in DOMAIN call.layers |-> call.layers[j].diffID] IN
       \E rootFS \in (IF last THEN {full, Tail(full)} ELSE {<<>>}) :
          dl' = [dl EXCEPT !.call[ch] =
                   [call EXCEPT !.pc = IF last THEN "loop" ELSE "Download",
                                !.hasRelease = last,
                                !.defers = IF last
                                           THEN Append(@, Deferred("release()", 0, NoChain))
                                           ELSE @,
                                !.rootFS = rootFS,
                                !.log = Append(@, Event(ch, "Registered", pos,
                                                        call.taken[pos],
                                                        IF pos = 1 THEN NoChain
                                                        ELSE call.taken[pos - 1]))],
                          !.meta = Registered(@, ld, ld.diffID)]
    /\ UNCHANGED layers
    /\ UNCHANGED DLVars

\* FromRemote after the Download: the check of the RootFS's length, then the
\* head of one turn of the loop over rootFS.DiffIDs (the createdAt annotation
\* parses or not), or the loop's end. A turn goes on with getRef.
FromRemoteLoop(ch) ==
    /\ dl.call[ch].pc = "loop"
    /\ LET call == dl.call[ch] IN
       IF Len(call.rootFS) # Len(call.layers)
       THEN dl' = [dl EXCEPT !.call[ch] =
                     FromRemoteReturn(call, NoChain, "invalid layer count mismatch")]
       ELSE IF call.i >= Len(call.rootFS)
       THEN dl' = [dl EXCEPT !.call[ch] = FromRemoteReturn(call, NoChain, "unreachable")]
       ELSE \/ dl' = [dl EXCEPT !.call[ch] = FromRemoteReturn(call, NoChain, "createdAt")]
            \/ LET to == getRef("enter", 1, call.i + 1, "nil") IN
               dl' = [dl EXCEPT !.call[ch] =
                        [call EXCEPT !.pc = to.pc, !.k = to.k, !.parent = NoChain,
                                     !.g = NoRef]]
    /\ UNCHANGED layers
    /\ UNCHANGED DLVars

\* getRef went on to: the next call on the cache manager, or its return to
\* FromRemote, which returns the error, returns the ref of the last descriptor,
\* or defers ref.Release and goes to the next turn.
GetRefGoes(call, g, to) ==
    IF to.pc = "error" THEN FromRemoteReturn(call, NoChain, g.err)
    ELSE IF to.pc = "result"
    THEN IF call.i = Len(call.descs) - 1
         THEN FromRemoteReturn(call, g.ref, "nil")
         ELSE [call EXCEPT !.pc = "loop", !.i = @ + 1,
                           !.defers = Append(@, Deferred("Release", call.i + 1, g.ref))]
    ELSE [call EXCEPT !.pc = to.pc, !.k = to.k, !.g = g,
                      !.parent = IF to.k > call.k THEN g.ref ELSE @]

\* getRef: CacheManager().GetByBlob for diffIDs[k-1] on the parent.
GetRefGetByBlob(ch) ==
    /\ dl.call[ch].pc = "GetByBlob"
    /\ LET call == dl.call[ch] IN
       \E fails \in BOOLEAN :
          LET g == GetByBlob(call.rootFS[call.k], call.parent, fails)
              logged == [call EXCEPT !.log =
                           Append(@, Event(ch, IF g.err = "nil" THEN "GetByBlob"
                                               ELSE "GetByBlobFailed",
                                           call.k, g.ref, call.parent))] IN
          dl' = [dl EXCEPT !.call[ch] =
                   GetRefGoes(logged, g, getRef("GetByBlob", call.k, call.i + 1, g.err))]
    /\ UNCHANGED layers
    /\ UNCHANGED DLVars

\* getRef: the deferred parent.Release of the invocation for diffIDs[:k].
GetRefRelease(ch) ==
    /\ dl.call[ch].pc = "Release"
    /\ LET call == dl.call[ch]
           logged == [call EXCEPT !.log =
                        Append(@, Event(ch, "Release", call.k - 1, call.parent, NoChain))] IN
       dl' = [dl EXCEPT !.call[ch] =
                GetRefGoes(logged, call.g, getRef("Release", call.k, call.i + 1, call.g.err))]
    /\ UNCHANGED layers
    /\ UNCHANGED DLVars

\* FromRemote is returning: the deferred call registered last runs, one call on
\* a store at a time: ref.Release, release(), or ContentStore().Delete of the
\* next blob of rootfs.
FromRemoteDefers(ch) ==
    /\ dl.call[ch].pc = "defers"
    /\ LET call == dl.call[ch]
           d == Last(call.defers)
           r == IF d.op = "release()" THEN releaseFunc(layers, call)
                ELSE [ls |-> layers, call |-> call]
           ran == [r.call EXCEPT
                     !.del = IF d.op = "Delete" THEN @ + 1 ELSE @,
                     !.log = IF d.op = "Release"
                             THEN Append(@, Event(ch, "Release", d.pos, d.ref, NoChain))
                             ELSE IF d.op = "release()"
                             THEN Append(@, Event(ch, "release()", 0, NoChain, NoChain))
                             ELSE @]
           left == Settle(IF d.op = "Delete" THEN call.defers ELSE Front(call.defers), ran) IN
       /\ layers' = r.ls
       /\ dl' = [dl EXCEPT
                   !.call[ch] = [ran EXCEPT !.defers = left,
                                            !.pc = IF left = <<>> THEN "done" ELSE "defers"],
                   !.content = IF d.op = "Delete"
                               THEN @ \ {call.layers[call.del + 1].desc} ELSE @]
    /\ UNCHANGED DLVars

\* The release function of a finished call is invoked once more.
ReleaseAgain(ch) ==
    /\ dl.call[ch].pc = "done"
    /\ dl.call[ch].hasRelease
    /\ dl.call[ch].nrel < MaxRelCalls
    /\ LET r == releaseFunc(layers, dl.call[ch]) IN
        /\ layers' = r.ls
        /\ dl' = [dl EXCEPT !.call[ch] = r.call]
    /\ UNCHANGED DLVars

InitDL ==
    /\ InitLocals
    /\ InitAux
    /\ InitStores(P2, {"c1", "c2"})

NextDL == \E ch \in ChainNames :
              \/ FromRemoteCall(ch)
              \/ Download(ch)
              \/ DownloadReaderAt(ch)
              \/ DownloadRegister(ch)
              \/ DownloadRegistered(ch)
              \/ DownloadFails(ch)
              \/ FromRemoteDownloadErr(ch)
              \/ FromRemoteLoop(ch)
              \/ GetRefGetByBlob(ch)
              \/ GetRefRelease(ch)
              \/ FromRemoteDefers(ch)
              \/ ReleaseAgain(ch)

SpecDL == InitDL /\ [][NextDL]_vars

\* ---- C22 ----

\* The calls the two chains made: chain A's, then chain B's, each in the order
\* they were made in.
DLLog == dl.call["A"].log \o dl.call["B"].log
Log(i) == DLLog[i]
Earlier(i, op, pos) ==
    {j \in 1..(i - 1) : Log(j).ch = Log(i).ch /\ Log(j).op = op /\ Log(j).pos = pos}

\* C22: within one chain the layer of position k is registered after the layer
\* of position k-1, on that layer's chain; getRef asks for the ref of position
\* k after it obtained the ref of position k-1, passes that ref as the parent,
\* and has not released it before.
C22_ParentBeforeChild ==
    \A i \in DOMAIN DLLog :
        /\ (Log(i).op = "Register" /\ Log(i).pos > 1)
              => \E j \in Earlier(i, "Register", Log(i).pos - 1) : Log(j).chain = Log(i).parent
        /\ (Log(i).op \in {"GetByBlob", "GetByBlobFailed"} /\ Log(i).pos > 1)
              => /\ Log(i).parent # NoChain
                 /\ \E j \in Earlier(i, "GetByBlob", Log(i).pos - 1) :
                       /\ Log(j).chain = Log(i).parent
                       /\ \A m \in Earlier(i, "Release", Log(i).pos - 1) : m < j

\* Chain A has registered the first of its two layers and chain B, which began
\* after A, has registered both of its own and obtained the ref of position 2 on
\* its parent: B's calls fell between A's first registration and its second.
C22_Witness ==
    /\ dl.call["A"].pc = "Download"
    /\ Len(dl.call["A"].layers) = 2 /\ Len(dl.call["A"].taken) = 1
    /\ Len(dl.call["B"].taken) = 2
    /\ \E i \in DOMAIN DLLog :
          Log(i).ch = "B" /\ Log(i).op = "GetByBlob" /\ Log(i).pos = 2

\* ---- C23 ----

\* The Download of chain ch holds the references it took until its release
\* function is invoked for the first time.
Holds(ch, chain) == dl.call[ch].nrel = 0 /\ chain \in Range(dl.call[ch].taken)

\* The holders of a reference on the layer of a chain ID other than the
\* Downloads: the images on top of it, the layers built on it, the store clients.
OtherUsers(chain) ==
    Cardinality({i \in DOMAIN images : ChainID(images[i].rootfs) = chain})
    + Cardinality({k \in DOMAIN layers : layers[k].parent = chain})
    + (IF chain \in KnownChains THEN api.held[chain] ELSE 0)

LayerUsers(chain) == OtherUsers(chain) + Cardinality({ch \in ChainNames : Holds(ch, chain)})

\* C23: when FromRemote has the error of a Download that had registered layers,
\* the layer store counts no reference of that Download any more: each layer's
\* count is the number of its other holders. In every state a layer's count is
\* the number of its holders, however often the release function was invoked:
\* nothing is released that the Download did not take, and nothing twice.
C23_FailedDownloadHoldsNothing ==
    /\ \A ch \in ChainNames :
          dl.call[ch].err = "Download" =>
              \A chain \in DOMAIN layers :
                  layers[chain].ref
                     = OtherUsers(chain)
                          + Cardinality({o \in ChainNames \ {ch} : Holds(o, chain)})
    /\ \A ch \in ChainNames :
          \A chain \in Range(dl.call[ch].taken) : Holds(ch, chain) => chain \in DOMAIN layers
    /\ \A i \in DOMAIN images : ChainID(images[i].rootfs) \in DOMAIN layers
    /\ \A chain \in DOMAIN layers : layers[chain].ref = LayerUsers(chain)

\* One Download failed after registering a layer and FromRemote has returned
\* its error, and the release function of a Download that had taken layers has
\* been invoked MaxRelCalls times.
C23_Witness ==
    /\ \E ch \in ChainNames :
          /\ dl.call[ch].pc = "done"
          /\ dl.call[ch].err = "Download" /\ dl.call[ch].taken # <<>>
    /\ \E ch \in ChainNames :
          /\ dl.call[ch].nrel = MaxRelCalls
          /\ dl.call[ch].taken # <<>>
          /\ dl.call[ch].err # "Download"

\* The other chain's deferred Delete has taken the blob out of the content
\* store between this chain's Copy and its ReaderAt, after this chain had
\* registered a layer: the ReaderAt to come fails.
C23_WitnessBlobDeleted ==
    \E ch \in ChainNames :
        /\ dl.call[ch].pc = "ReaderAt"
        /\ Len(dl.call[ch].taken) = 1
        /\ dl.call[ch].layers[2].desc \notin dl.content

\* ---- C29 ----

\* C29: Registered is the call a chain makes next after the successful Register
\* of the same layer, never for a position that failed, and the metadata service
\* maps each diffID to exactly the blob digests of the descriptors that were
\* notified for it.
C29_RegisteredAfterRegister ==
    /\ \A i \in DOMAIN DLLog :
          Log(i).op = "Registered"
              => /\ i > 1
                 /\ Log(i - 1) = [Log(i) EXCEPT !.op = "Register"]
                 /\ Log(i).chain # NoChain
                 /\ \A j \in DOMAIN DLLog :
                       ~(Log(j).op = "Failed" /\ Log(j).ch = Log(i).ch /\ Log(j).pos = Log(i).pos)
    /\ \A d \in DiffIDs :
          dl.meta[d] = {dl.call[Log(i).ch].layers[Log(i).pos].desc :
                          i \in {j \in DOMAIN DLLog :
                                   /\ Log(j).op = "Registered"
                                   /\ dl.call[Log(j).ch].layers[Log(j).pos].diffID = d}}

\* A Download registered its first layer and failed at the second: the first
\* diffID is mapped to its blob digest, the second to nothing.
C29_Witness ==
    \E ch \in ChainNames :
        /\ dl.call[ch].err = "Download"
        /\ Len(dl.call[ch].taken) = 1
        /\ dl.meta[dl.call[ch].layers[1].diffID] = {dl.call[ch].layers[1].desc}
        /\ dl.meta[dl.call[ch].layers[2].diffID] = {}

\* ---- The layer store and the image store under their clients' calls ----

StoreVars == <<pc, ctxDone, c, Locals, ret, rc, rwlayers, events, containers, calls, pre,
               clock, ncalls, hpc, req, refs, du, rel, mgr, dl, bk>>

Result(op, err) == [NoResult EXCEPT !.op = op, !.err = err]

\* layerStore.Register(diff, parent) by a client, which keeps the layer it gets.
StoreRegister ==
    /\ api.n < MaxOps
    /\ \E diffID \in DiffIDs, parentChain \in 0..MaxDiff :
        LET r == Register(layers, diffID, parentChain) IN
        /\ layers' = r.ls
        /\ api' = [api EXCEPT
                     !.n = @ + 1,
                     !.held = IF r.err = "nil" THEN [@ EXCEPT ![r.chain] = @ + 1] ELSE @,
                     !.returned[<<diffID, parentChain>>] =
                         IF r.err = "nil" THEN @ \cup {r.chain} ELSE @,
                     !.last = [Result("Register", r.err) EXCEPT
                                 !.chain = r.chain, !.diff = diffID, !.parent = parentChain,
                                 !.existed = (parentChain * Base + diffID) \in DOMAIN layers]]
    /\ UNCHANGED <<images, StoreVars>>

\* layerStore.Release(layer) of a layer the client holds.
StoreRelease ==
    /\ api.n < MaxOps
    /\ \E chain \in KnownChains :
        /\ api.held[chain] > 0
        /\ layers' = ReleaseLayer(layers, chain)
        /\ api' = [api EXCEPT !.n = @ + 1, !.held[chain] = @ - 1,
                              !.last = [Result("Release", "nil") EXCEPT !.chain = chain]]
    /\ UNCHANGED <<images, StoreVars>>

\* The configs a client serialises: a RootFS whose layer is in the store.
StoreConfigs ==
    {[rootfs |-> r, container |-> "", os |-> "linux", created |-> 0] :
        r \in {x \in {<<d>> : d \in DiffIDs} \cup {<<d, e>> : d \in DiffIDs, e \in DiffIDs} :
                 ChainID(x) \in DOMAIN layers}}

\* imageStore.Create(config)
StoreCreate ==
    /\ api.n < MaxOps
    /\ \E img \in StoreConfigs :
        LET r == ImageCreate(images, layers, img) IN
        /\ images' = r.imgs
        /\ layers' = r.ls
        /\ api' = [api EXCEPT !.n = @ + 1,
                              !.last = [Result("Create", "nil") EXCEPT
                                          !.id = r.id, !.chain = ChainID(img.rootfs),
                                          !.os = img.os,
                                          !.existed = DigestOf(img) \in DOMAIN images]]
    /\ UNCHANGED StoreVars

\* Variant: the deleted image keeps its reference on the layer.
ImageDeleteKeepsLayer(imgs, ls, imgID) ==
    IF imgID \notin DOMAIN imgs
    THEN [err |-> "ErrImageNotFound", imgs |-> imgs, ls |-> ls]
    ELSE [err |-> "nil",
          imgs |-> [k \in DOMAIN imgs \ {imgID} |->
                      IF imgs[k].parent = imgID THEN [imgs[k] EXCEPT !.parent = NoImage]
                      ELSE imgs[k]],
          ls |-> ls]

\* imageStore.Delete(id): the record goes, its children lose their parent,
\* and the reference the image held on its top layer is released.
ImageDelete(imgs, ls, imgID) ==
    IF imgID \notin DOMAIN imgs
    THEN [err |-> "ErrImageNotFound", imgs |-> imgs, ls |-> ls]
    ELSE [err |-> "nil",
          imgs |-> [k \in DOMAIN imgs \ {imgID} |->
                      IF imgs[k].parent = imgID THEN [imgs[k] EXCEPT !.parent = NoImage]
                      ELSE imgs[k]],
          ls |-> ReleaseLayer(ls, ChainID(imgs[imgID].rootfs))]

StoreDelete ==
    /\ api.n < MaxOps
    /\ \E imgID \in DOMAIN images :
        LET r == ImageDelete(images, layers, imgID) IN
        /\ images' = r.imgs
        /\ layers' = r.ls
        /\ api' = [api EXCEPT !.n = @ + 1, !.deleted = Append(@, imgID),
                              !.last = [Result("Delete", r.err) EXCEPT
                                          !.id = imgID, !.chain = ChainID(images[imgID].rootfs)]]
    /\ UNCHANGED StoreVars

\* Two images pulled on one base layer: RootFS <<1, 2>> and <<1, 1>>; no container.
S2 == DigestOf(BaseImage(<<1, 1>>))
SiblingStores ==
    /\ rwlayers = <<>>
    /\ containers = <<>>
    /\ events = <<>>
    /\ layers = [k \in {ChainID(<<1>>), ChainID(<<1, 2>>), ChainID(<<1, 1>>)} |->
                   IF k = ChainID(<<1>>) THEN [diffID |-> 1, parent |-> NoChain, ref |-> 2]
                   ELSE IF k = ChainID(<<1, 2>>)
                   THEN [diffID |-> 2, parent |-> ChainID(<<1>>), ref |-> 1]
                   ELSE [diffID |-> 1, parent |-> ChainID(<<1>>), ref |-> 1]]
    /\ images = [k \in {P2, S2} |->
                   IF k = P2 THEN BaseImage(<<1, 2>>) ELSE BaseImage(<<1, 1>>)]

InitStore ==
    /\ InitLocals
    /\ InitAux
    /\ \/ InitStores(P2, {"c1", "c2"})
       \/ SiblingStores

NextStore == StoreRegister \/ StoreRelease \/ StoreCreate \/ StoreDelete

SpecStore == InitStore /\ [][NextStore]_vars

\* ---- C24 ----

\* A step that is the call op of a store client.
StepOf(op) == api'.n = api.n + 1 /\ api'.last.op = op

\* Every layer's reference count is the number of its holders.
RefsAreHolders ==
    /\ \A chain \in DOMAIN layers : layers[chain].ref = LayerUsers(chain)
    /\ \A chain \in KnownChains : api.held[chain] > 0 => chain \in DOMAIN layers

\* C24: every Register of one (diff, parent) pair returns the same ChainID; a
\* Register of a layer that is there adds no storage and raises its count by
\* one, so that the count is the number of holders; a Register on an unknown
\* non-empty parent fails with ErrLayerNotFound and leaves the store as it was.
C24_RegisterDedups ==
    /\ [](RefsAreHolders /\ \A x \in DOMAIN api.returned : Cardinality(api.returned[x]) <= 1)
    /\ [][StepOf("Register") =>
            LET e == api'.last
                chain == e.parent * Base + e.diff IN
            IF e.parent # NoChain /\ e.parent \notin DOMAIN layers
            THEN e.err = "ErrLayerNotFound" /\ layers' = layers /\ api'.held = api.held
            ELSE /\ e.err = "nil" /\ e.chain = chain
                 /\ api'.held[chain] = api.held[chain] + 1
                 /\ chain \in DOMAIN layers
                        => layers' = [layers EXCEPT ![chain].ref = @ + 1]
                 /\ chain \notin DOMAIN layers
                        => /\ DOMAIN layers' = DOMAIN layers \cup {chain}
                           /\ layers'[chain].ref = 1]_vars

\* A client registered diff 1 on the chain of <<1>> twice and holds the only
\* two references of the layer, which its first Register created, and its last
\* Register named an unknown parent.
C24_Witness ==
    /\ api.last.op = "Register" /\ api.last.err = "ErrLayerNotFound"
    /\ api.returned[<<1, ChainID(<<1>>)>>] = {ChainID(<<1, 1>>)}
    /\ api.held[ChainID(<<1, 1>>)] = 2
    /\ layers[ChainID(<<1, 1>>)].ref = 2

\* ---- C25 ----

\* C25: Create returns the ID of a record with the content it was given; a
\* record is kept under the hash of its own content, so there is one per
\* content; a Create of known content changes neither store, and no Create adds
\* more than one image.
C25_CreateIdempotent ==
    /\ [](\A imgID \in DOMAIN images : DigestOf(images[imgID]) = imgID)
    /\ [][StepOf("Create") =>
            LET e == api'.last IN
            /\ e.id \in DOMAIN images'
            /\ ChainID(images'[e.id].rootfs) = e.chain /\ images'[e.id].os = e.os
            /\ Cardinality(DOMAIN images') <= Cardinality(DOMAIN images) + 1
            /\ e.existed <=> e.id \in DOMAIN images
            /\ e.existed => images' = images /\ layers' = layers]_vars

\* The last Create was the second of a config that no image had at the start.
C25_Witness ==
    /\ api.last.op = "Create" /\ api.last.existed
    /\ api.last.id \notin {P1, P2, S2}
    /\ api.last.id \in DOMAIN images

\* ---- C26 ----

\* C26: the deletion of an image reclaims a layer exactly when the layer has no
\* holder left after it, and only from a count of 1; no other layer goes, none
\* appears, and the counts of the layers that stay are their holders.
C26_SharedLayerReclaimedOnce ==
    /\ []RefsAreHolders
    /\ [][(StepOf("Delete") /\ api'.last.err = "nil") =>
            /\ DOMAIN layers' \subseteq DOMAIN layers
            /\ \A k \in DOMAIN layers :
                  /\ k \notin DOMAIN layers' <=> LayerUsers(k)' = 0
                  /\ k \notin DOMAIN layers' => layers[k].ref = 1]_vars

\* The two images on the shared base layer were deleted, nothing else was
\* called, and the base layer went with the second deletion.
C26_Witness ==
    /\ api.n = 2
    /\ Range(api.deleted) = {P2, S2}
    /\ DOMAIN images = {}
    /\ DOMAIN layers = {}

\* ---- Commit under a reference name, tag, remove by reference ----

RefVars == <<pc, ctxDone, c, Locals, ret, rc, rwlayers, containers, calls, pre, clock, ncalls,
             hpc, req, du, rel, mgr, dl, bk>>

Without(f, x) == [k \in DOMAIN f \ {x} |-> f[k]]
With(f, x, v) == [k \in DOMAIN f \cup {x} |-> IF k = x THEN v ELSE f[k]]

\* ImageInspect(name) and ImageInspect(id)
InspectName(rs, imgs, name) ==
    IF name \in DOMAIN rs /\ rs[name] \in DOMAIN imgs
    THEN [err |-> "nil", id |-> rs[name]]
    ELSE [err |-> "No such image", id |-> NoImage]
InspectID(imgs, imgID) ==
    IF imgID \in DOMAIN imgs
    THEN [err |-> "nil", id |-> imgID]
    ELSE [err |-> "No such image", id |-> NoImage]

\* The containers created from an image.
Using(conts, imgID) == {n \in DOMAIN conts : conts[n].ImageID = imgID}

\* ContainerCommit(container, {Reference: name}): the commit, then the name is
\* written to the reference store, over what it pointed to.
RefCommit ==
    /\ api.n < MaxTagOps
    /\ \E cn \in DOMAIN containers, name \in RefNames, diffID \in DiffIDs :
        LET cont == containers[cn]
            parentRootFS == IF cont.ImageID = NoImage THEN NewRootFS
                            ELSE images[cont.ImageID].rootfs
            r == Register(layers, diffID, ChainID(parentRootFS))
            cfg == NewChildImage(parentRootFS, [ContainerID |-> cn, DiffID |-> diffID],
                                 cont.OS, clock)
            cr == ImageCreate(images, r.ls, cfg)
            built == SetBuiltLocally(cr.imgs, cr.id)
            linked == IF cont.ImageID = NoImage THEN built
                      ELSE SetParent(built, cr.id, cont.ImageID) IN
        /\ cont.ImageID = NoImage \/ cont.ImageID \in DOMAIN images
        /\ r.err = "nil"
        /\ cr.id # cont.ImageID
        /\ images' = linked
        /\ layers' = ReleaseLayer(cr.ls, r.chain)
        /\ events' = LogImageEvent(events, cr.id, cr.id, "create")
        /\ refs' = With(refs, name, cr.id)
        /\ api' = [api EXCEPT !.n = @ + 1,
                              !.last = [Result("Commit", "nil") EXCEPT
                                          !.id = cr.id, !.name = name,
                                          !.existed = name \in DOMAIN refs]]
    /\ UNCHANGED RefVars

\* ImageTag(source, target): the target name points to the source's image.
RefTag ==
    /\ api.n < MaxTagOps
    /\ \E source \in DOMAIN refs, target \in RefNames :
        /\ refs[source] \in DOMAIN images
        /\ refs' = With(refs, target, refs[source])
        /\ api' = [api EXCEPT !.n = @ + 1,
                              !.last = [Result("Tag", "nil") EXCEPT
                                          !.id = refs[source], !.name = target]]
    /\ UNCHANGED <<images, layers, events, RefVars>>

\* Variant: with the image, its parent is deleted when no name points to it.
ImageRemovePrunesParent(rs, imgs, ls, conts, name) ==
    LET imgID == rs[name]
        rest == Without(rs, name)
        d == ImageDelete(imgs, ls, imgID)
        parentID == imgs[imgID].parent
        pruned == IF parentID \in DOMAIN d.imgs /\ References(rest, parentID) = {}
                  THEN ImageDelete(d.imgs, d.ls, parentID) ELSE d IN
    IF name \notin DOMAIN rs
    THEN [err |-> "NotFound", rs |-> rs, imgs |-> imgs, ls |-> ls, deleted |-> NoImage]
    ELSE IF References(rest, imgID) # {} \/ imgID \notin DOMAIN imgs
    THEN [err |-> "nil", rs |-> rest, imgs |-> imgs, ls |-> ls, deleted |-> NoImage]
    ELSE IF Using(conts, imgID) # {}
    THEN [err |-> "Conflict", rs |-> rs, imgs |-> imgs, ls |-> ls, deleted |-> NoImage]
    ELSE IF Children(imgs, imgID) # {}
    THEN [err |-> "nil", rs |-> rest, imgs |-> imgs, ls |-> ls, deleted |-> NoImage]
    ELSE [err |-> "nil", rs |-> rest, imgs |-> pruned.imgs, ls |-> pruned.ls,
          deleted |-> imgID]

\* Variant: the image goes with any of its names.
ImageRemoveAnyReference(rs, imgs, ls, conts, name) ==
    LET imgID == rs[name]
        rest == Without(rs, name)
        d == ImageDelete(imgs, ls, imgID) IN
    IF name \notin DOMAIN rs
    THEN [err |-> "NotFound", rs |-> rs, imgs |-> imgs, ls |-> ls, deleted |-> NoImage]
    ELSE IF imgID \notin DOMAIN imgs
    THEN [err |-> "nil", rs |-> rest, imgs |-> imgs, ls |-> ls, deleted |-> NoImage]
    ELSE IF Using(conts, imgID) # {}
    THEN [err |-> "Conflict", rs |-> rs, imgs |-> imgs, ls |-> ls, deleted |-> NoImage]
    ELSE IF Children(imgs, imgID) # {}
    THEN [err |-> "nil", rs |-> rest, imgs |-> imgs, ls |-> ls, deleted |-> NoImage]
    ELSE [err |-> "nil", rs |-> rest, imgs |-> d.imgs, ls |-> d.ls, deleted |-> imgID]

\* ImageRemove(name) without force: the name leaves the reference store; the
\* image is deleted when that was its last name, it has no children and no
\* container was created from it. The last name of an image that a container
\* uses is not removed. Nothing else is deleted.
ImageRemove(rs, imgs, ls, conts, name) ==
    LET imgID == rs[name]
        rest == Without(rs, name)
        d == ImageDelete(imgs, ls, imgID) IN
    IF name \notin DOMAIN rs
    THEN [err |-> "NotFound", rs |-> rs, imgs |-> imgs, ls |-> ls, deleted |-> NoImage]
    ELSE IF References(rest, imgID) # {} \/ imgID \notin DOMAIN imgs
    THEN [err |-> "nil", rs |-> rest, imgs |-> imgs, ls |-> ls, deleted |-> NoImage]
    ELSE IF Using(conts, imgID) # {}
    THEN [err |-> "Conflict", rs |-> rs, imgs |-> imgs, ls |-> ls, deleted |-> NoImage]
    ELSE IF Children(imgs, imgID) # {}
    THEN [err |-> "nil", rs |-> rest, imgs |-> imgs, ls |-> ls, deleted |-> NoImage]
    ELSE [err |-> "nil", rs |-> rest, imgs |-> d.imgs, ls |-> d.ls, deleted |-> imgID]

RefRemove ==
    /\ api.n < MaxTagOps
    /\ \E name \in RefNames :
        LET r == ImageRemove(refs, images, layers, containers, name) IN
        /\ refs' = r.rs
        /\ images' = r.imgs
        /\ layers' = r.ls
        /\ events' = IF r.deleted = NoImage THEN events
                     ELSE LogImageEvent(events, r.deleted, r.deleted, "delete")
        /\ api' = [api EXCEPT !.n = @ + 1,
                              !.deleted = IF r.deleted = NoImage THEN @
                                          ELSE Append(@, r.deleted),
                              !.last = [Result("Remove", r.err) EXCEPT
                                          !.id = r.deleted, !.name = name]]
    /\ UNCHANGED RefVars

InitRef ==
    /\ InitLocals
    /\ InitAux
    /\ \E img2 \in {NoImage, P2} : InitStores(img2, {"c1", "c2"})

NextRef == RefCommit \/ RefTag \/ RefRemove

SpecRef == InitRef /\ [][NextRef]_vars

\* ---- C27 ----

\* C27: a commit under a name leaves the name on the committed image, whatever
\* it pointed to. A removal of the only name of an image that has no children
\* and no container deletes that image and no other: its parent keeps its
\* record and is found by ID, though no name may point to it.
C27_RemoveDeletesChildKeepsParent ==
    [][/\ StepOf("Commit") => InspectName(refs', images', api'.last.name).id = api'.last.id
       /\ (/\ StepOf("Remove")
           /\ api'.last.name \in DOMAIN refs
           /\ refs[api'.last.name] \in DOMAIN images
           /\ References(refs, refs[api'.last.name]) = {api'.last.name}
           /\ Children(images, refs[api'.last.name]) = {}
           /\ Using(containers, refs[api'.last.name]) = {})
          => LET imgID == refs[api'.last.name]
                 parentID == images[imgID].parent IN
             /\ api'.last.err = "nil"
             /\ InspectID(images', imgID).err = "No such image"
             /\ DOMAIN images' = DOMAIN images \ {imgID}
             /\ parentID # NoImage
                  => /\ InspectID(images', parentID) = [err |-> "nil", id |-> parentID]
                     /\ images'[parentID] = images[parentID]]_vars

\* A commit moved a name from the container's image to the new image, the name
\* was removed, the new image is gone; the earlier image has no name left and
\* is still there.
C27_Witness ==
    /\ api.last.op = "Remove" /\ api.last.err = "nil"
    /\ Len(api.deleted) = 1
    /\ api.deleted[1] \notin DOMAIN images
    /\ \E e \in Range(events) : e.action = "create" /\ e.id = api.deleted[1]
    /\ P2 \in DOMAIN images /\ References(refs, P2) = {}
    /\ containers["c2"].ImageID = P2
    /\ api.n = 2

\* ---- C28 ----

\* C28: a removal of a name whose image has another name takes that name out
\* of the reference store and changes nothing else: images and layers are as
\* before, every other name finds the image it found before, and the removed
\* name finds nothing.
C28_RemoveOneOfTwoReferences ==
    [][(/\ StepOf("Remove")
        /\ api'.last.name \in DOMAIN refs
        /\ References(refs, refs[api'.last.name]) # {api'.last.name})
          => /\ api'.last.err = "nil"
             /\ images' = images /\ layers' = layers
             /\ refs' = Without(refs, api'.last.name)
             /\ InspectName(refs', images', api'.last.name).err = "No such image"
             /\ \A n \in DOMAIN refs \ {api'.last.name} :
                   InspectName(refs', images', n) = InspectName(refs, images, n)]_vars

\* A second name was given to an image and removed again: the image is found
\* through its first name, the removed name is not found.
C28_Witness ==
    /\ api.last.op = "Remove" /\ api.last.err = "nil" /\ api.last.id = NoImage
    /\ api.last.name = "r2"
    /\ InspectName(refs, images, "r1") = [err |-> "nil", id |-> P1]
    /\ InspectName(refs, images, "r2").err = "No such image"
    /\ api.deleted = <<>>
    /\ api.n = 2

\* ---- ImageService.CreateLayer ----

CLVars == <<pc, ctxDone, c, Locals, ret, rc, layers, images, events, containers, calls, pre,
            clock, ncalls, hpc, req, refs, du, rel, mgr, dl, bk>>

\* layerStore.CreateRWLayer(name, parent, opts): a name that has an active RW
\* layer is refused, so is a parent chain that is not in the store; else the
\* RW layer is created on the parent chain with one reference and no mount.
CreateRWLayer(rws, ls, name, parentChain, opts) ==
    IF name \in DOMAIN rws
    THEN [err |-> "ErrMountNameConflict", rws |-> rws]
    ELSE IF parentChain # NoChain /\ parentChain \notin DOMAIN ls
    THEN [err |-> "ErrLayerNotFound", rws |-> rws]
    ELSE [err |-> "nil",
          rws |-> With(rws, name, [ref |-> 1, mounts |-> 0, parent |-> parentChain])]

\* imageStore.Get(id)
ImageGet(imgs, imgID) ==
    IF imgID \in DOMAIN imgs
    THEN [err |-> "nil", nil |-> FALSE, img |-> imgs[imgID]]
    ELSE [err |-> "ErrImageNotFound", nil |-> TRUE, img |-> NoChild]

\* CreateLayerFromImage(img, layerName, rwLayerOpts): the chain ID of the
\* image's RootFS, or the empty chain ID for no image.
CreateLayerFromImage(rws, ls, img, layerName, rwLayerOpts) ==
    LET layerID == IF ~img.nil THEN ChainID(img.img.rootfs) ELSE NoChain IN
    CreateRWLayer(rws, ls, layerName, layerID, rwLayerOpts)

\* Variant: an image that is not found counts as no image.
CreateLayerIgnoresGetError(imgs, container) ==
    IF container.ImageID # NoImage /\ container.ImageID \in DOMAIN imgs
    THEN ImageGet(imgs, container.ImageID)
    ELSE [err |-> "nil", nil |-> TRUE, img |-> NoChild]

\* CreateLayer(container, initFunc) up to its call of CreateLayerFromImage: the
\* image of the container, read from the image store when the ID is set.
CreateLayer(imgs, container) ==
    IF container.ImageID # NoImage THEN ImageGet(imgs, container.ImageID)
    ELSE [err |-> "nil", nil |-> TRUE, img |-> NoChild]

\* Container creation asks for the RW layer of a container: CreateLayer reads
\* the image and returns the error of the read, or goes on to
\* CreateLayerFromImage with the image it read.
CreateLayerCall ==
    /\ api.n < MaxCreates
    /\ api.cl.pc = "idle"
    /\ \E name \in {"c1", "c2", "c3"}, imgID \in {NoImage, P1, P2, UnknownImage} :
        LET label == IF name = "c1" THEN "s0" ELSE ""
            got == CreateLayer(images, [ID |-> name, ImageID |-> imgID, MountLabel |-> label])
            call == [pc |-> IF got.err # "nil" THEN "idle" ELSE "CreateLayerFromImage",
                     op |-> "CreateLayer", n |-> api.n + 1, name |-> name, id |-> imgID,
                     label |-> label, img |-> got] IN
        api' = IF got.err # "nil"
               THEN [api EXCEPT !.n = @ + 1, !.errs = @ \cup {got.err}, !.cl = call,
                                !.last = [Result("CreateLayer", got.err) EXCEPT
                                            !.name = name, !.id = imgID, !.label = label]]
               ELSE [api EXCEPT !.n = @ + 1, !.cl = call]
    /\ UNCHANGED <<rwlayers, CLVars>>

\* A caller that holds an image of the store, or none, enters
\* CreateLayerFromImage itself.
CreateLayerFromImageCall ==
    /\ api.n < MaxCreates
    /\ api.cl.pc = "idle"
    /\ \E name \in {"c1", "c2", "c3"}, imgID \in DOMAIN images \cup {NoImage} :
        api' = [api EXCEPT !.n = @ + 1,
                           !.cl = [pc |-> "CreateLayerFromImage", op |-> "CreateLayerFromImage",
                                   n |-> api.n + 1, name |-> name, id |-> imgID, label |-> "",
                                   img |-> CreateLayer(images, [ID |-> name, ImageID |-> imgID,
                                                                MountLabel |-> ""])]]
    /\ UNCHANGED <<rwlayers, CLVars>>

\* CreateLayerFromImage calls layerStore.CreateRWLayer on the chain of the
\* image it was given, against the layer store as it is by then, and returns.
CreateRWLayerCall ==
    /\ api.cl.pc = "CreateLayerFromImage"
    /\ LET e == api.cl
           r == CreateLayerFromImage(rwlayers, layers, e.img, e.name, [MountLabel |-> e.label]) IN
        /\ rwlayers' = r.rws
        /\ api' = [api EXCEPT !.errs = @ \cup {r.err}, !.cl.pc = "idle",
                              !.last = [Result(e.op, r.err) EXCEPT
                                          !.name = e.name, !.id = e.id, !.label = e.label]]
    /\ UNCHANGED CLVars

InitCL ==
    /\ InitLocals
    /\ InitAux
    /\ \E img2 \in {NoImage, P2} : InitStores(img2, {"c1", "c2"})

NextCL ==
    \/ CreateLayerCall
    \/ CreateLayerFromImageCall
    \/ CreateRWLayerCall
    \/ RefRemove

SpecCL == InitCL /\ [][NextCL]_vars

\* ---- C30 ----

\* C30: a CreateLayer for an image ID that is set and not in the image store
\* fails with the error of the read and never reaches the layer store; for an
\* empty image ID it goes on with no image, for an image of the store with that
\* image. CreateLayerFromImage under a name that has an active RW layer fails
\* and leaves every RW layer as it was; under a free name it creates the RW
\* layer on the empty chain for no image and on the chain of the RootFS for an
\* image whose chain is in the layer store, and fails, creating nothing, when
\* that chain has gone. No step of the two changes another store.
C30_CreateLayerErrors ==
    [][/\ (api'.n = api.n + 1 /\ api'.cl.n = api'.n /\ api'.cl.op = "CreateLayer") =>
            LET e == api'.cl IN
            /\ IF e.id # NoImage /\ e.id \notin DOMAIN images
               THEN /\ e.pc = "idle"
                    /\ api'.last.op = "CreateLayer" /\ api'.last.err = "ErrImageNotFound"
                    /\ api'.last.name = e.name /\ api'.last.id = e.id
               ELSE /\ e.pc = "CreateLayerFromImage"
                    /\ api'.last = api.last
                    /\ e.img.nil = (e.id = NoImage)
                    /\ e.id # NoImage => e.img.img = images[e.id]
            /\ rwlayers' = rwlayers /\ layers' = layers /\ images' = images
       /\ (api.cl.pc = "CreateLayerFromImage" /\ api'.cl.pc = "idle") =>
            LET e == api.cl
                r == api'.last
                chain == IF e.img.nil THEN NoChain ELSE ChainID(e.img.img.rootfs) IN
            /\ r.op = e.op /\ r.name = e.name /\ r.id = e.id
            /\ e.name \in DOMAIN rwlayers => r.err # "nil"
            /\ (e.name \notin DOMAIN rwlayers /\ chain # NoChain /\ chain \notin DOMAIN layers)
                  => r.err = "ErrLayerNotFound"
            /\ (e.name \notin DOMAIN rwlayers /\ (chain = NoChain \/ chain \in DOMAIN layers))
                  => r.err = "nil"
            /\ IF r.err = "nil"
               THEN /\ DOMAIN rwlayers' = DOMAIN rwlayers \cup {e.name}
                    /\ \A n \in DOMAIN rwlayers : rwlayers'[n] = rwlayers[n]
                    /\ rwlayers'[e.name] = [ref |-> 1, mounts |-> 0, parent |-> chain]
               ELSE rwlayers' = rwlayers
            /\ layers' = layers /\ images' = images]_vars

\* A CreateLayer failed on an unknown image, one with no image created the RW
\* layer of c3 on the empty chain, and the last one, under the same name,
\* failed and left that RW layer as it was.
C30_Witness ==
    /\ api.last.op = "CreateLayer" /\ api.last.name = "c3"
    /\ api.last.err = "ErrMountNameConflict"
    /\ "ErrImageNotFound" \in api.errs
    /\ "c3" \in DOMAIN rwlayers
    /\ rwlayers["c3"] = [ref |-> 1, mounts |-> 0, parent |-> NoChain]

\* A CreateLayer read an image of the store, the image and its layers were
\* removed, and CreateRWLayer then found no such layer.
C30_WitnessRemoved ==
    /\ api.last.op = "CreateLayer" /\ api.last.id = P2
    /\ api.last.err = "ErrLayerNotFound"
    /\ P2 \notin DOMAIN images
    /\ api.last.name \notin DOMAIN rwlayers

\* ------------------------------------------------------------------ direct commits
\* A request thread enters CommitImage itself (the commit API, not the builder).
CallCommitImage ==
    /\ pc = "idle"
    /\ ncalls < MaxCalls
    /\ \E cancelled \in BOOLEAN, cid \in {"c1", "c2", "c3"}, label \in MountLabels,
          os \in Range(OSNames), pid \in DOMAIN images \cup {NoImage, UnknownImage} :
            /\ c' = [op |-> "CommitImage", ContainerID |-> cid,
                     ContainerMountLabel |-> label, ContainerOS |-> os,
                     ParentImageID |-> pid]
            /\ ctxDone' = cancelled
    /\ pc' = "CommitImage"
    /\ ncalls' = ncalls + 1
    /\ pre' = Snapshot
    /\ calls' = <<>>
    /\ ret' = [id |-> NoImage, err |-> "pending"]
    /\ UNCHANGED <<Locals, rc, Stores, containers, clock, hpc, Aux>>

NextCI ==
    \/ CallCommitImage
    \/ CommitImageEntry
    \/ ExportGetRWLayer
    \/ ExportMount
    \/ ExportTarStream
    \/ ExportUnmount
    \/ ExportRelease
    \/ ResolveParent
    \/ RegisterLayer
    \/ CommitCloser
    \/ RegisterLayerDone
    \/ MarshalChild
    \/ CreateImage
    \/ LogCreateEvent
    \/ MarkBuiltLocally
    \/ LinkParent
    \/ RunDefers
    \/ Reset
    \/ Tick

SpecCI == Init /\ [][NextCI]_vars

\* ------------------------------------------------------------------ C31
\* The bookkeeping calls of CommitImage in the order of the code.
BookkeepingOrder == <<"Register", "Create", "LogImageEvent", "SetBuiltLocally", "SetParent">>
\* The bookkeeping calls the current CommitImage has made, in the order made.
Bookkeeping == SelectSeq(calls, LAMBDA op : op \in Range(BookkeepingOrder))
IsPrefix(s, t) == Len(s) <= Len(t) /\ \A n \in 1..Len(s) : s[n] = t[n]
FirstSteps(n) == SubSeq(BookkeepingOrder, 1, n)

\* C31: CommitImage makes its bookkeeping calls in the fixed order Register,
\* Create, create event, SetBuiltLocally, SetParent, each at most once and each
\* only after all earlier ones succeeded: a call that returns the error of one
\* step has made exactly the calls up to that step, so SetParent is not called
\* after a failed SetBuiltLocally and no image record is created after a
\* failed Register.
C31_BookkeepingInOrder ==
    /\ IsPrefix(Bookkeeping, BookkeepingOrder)
    /\ Returned =>
          /\ ret.err \in {"register error", "ErrLayerNotFound", "marshal error"} =>
                /\ Bookkeeping = FirstSteps(1)
                /\ images = pre.images
          /\ ret.err = "create error" => Bookkeeping = FirstSteps(2) /\ images = pre.images
          /\ ret.err = "set built locally error" => Bookkeeping = FirstSteps(4)
          /\ ret.err = "set parent error" => Bookkeeping = FirstSteps(5)
          /\ ret.err = "nil" =>
                Bookkeeping = FirstSteps(IF c.ParentImageID # NoImage THEN 5 ELSE 4)

C31_Witness ==
    /\ Returned /\ ret.err = "set built locally error" /\ c.ParentImageID = P1
    /\ Bookkeeping = FirstSteps(4)
    /\ images[id].parent = NoImage

\* ------------------------------------------------------------------ C32
\* exportContainerRw has returned an error to its caller.
ExportFailed == pc = "done" /\ c.op = "exportContainerRw" /\ ret.err # "nil"

\* C32: exportContainerRw cleans up on each of its failure paths. When
\* GetRWLayer fails nothing else is called; when Mount fails ReleaseRWLayer is
\* called once and Unmount is not; when TarStream fails Unmount is called once
\* and then ReleaseRWLayer once. In each case the stream returned is nil, no
\* read-closer exists, and the RW layers have the references and mounts they
\* had before the call.
C32_ExportCleansUpOnFailure ==
    ExportFailed =>
        /\ rwTar = "nil" /\ rc.state = "None"
        /\ rwlayers = pre.rwlayers
        /\ ret.err \in {"ErrMountDoesNotExist", "mount error", "tar error"}
        /\ ret.err = "ErrMountDoesNotExist" => calls = <<"GetRWLayer">>
        /\ ret.err = "mount error" => calls = <<"GetRWLayer", "Mount", "ReleaseRWLayer">>
        /\ ret.err = "tar error" =>
              calls = <<"GetRWLayer", "Mount", "TarStream", "Unmount", "ReleaseRWLayer">>

C32_Witness ==
    /\ ExportFailed /\ ret.err = "mount error" /\ c.ContainerID = "c1"
    /\ Releases = 1 /\ Unmounts = 0
    /\ rwlayers["c1"].mounts = 1

C32_WitnessTar ==
    /\ ExportFailed /\ ret.err = "tar error" /\ c.ContainerID = "c2"
    /\ Releases = 1 /\ Unmounts = 1
    /\ rwlayers["c2"].mounts = 0

\* ------------------------------------------------------------------ C33
\* The references layer k had when the call started.
PreRef(k) == IF k \in DOMAIN pre.layers THEN pre.layers[k].ref ELSE 0
\* The images the call added to the image store.
Made == DOMAIN images \ DOMAIN pre.images

\* C33: a CommitImage that has returned released the layer it got from
\* Register exactly once when Register succeeded, and never when it failed or
\* was not reached. Afterwards no layer carries a reference of the call: when
\* the call added no image the layer store is as it was before the call; when
\* it added one, the registered layer has one reference more than before, the
\* one the image store took for the new image (and a layer that is new holds
\* one on its parent).
C33_LayerReleasedOnce ==
    /\ Count(calls, "ReleaseAndLog") <= 1
    /\ Called("ReleaseAndLog") => Called("Register") /\ l # NoChain
    /\ Returned =>
          /\ Count(calls, "ReleaseAndLog") = (IF l # NoChain THEN 1 ELSE 0)
          /\ IF Made = {}
             THEN layers = pre.layers
             ELSE /\ Made = {id}
                  /\ ChainID(images[id].rootfs) = l
                  /\ DOMAIN layers = DOMAIN pre.layers \cup {l}
                  /\ \A k \in DOMAIN layers :
                        layers[k].ref = PreRef(k)
                            + (IF k = l THEN 1 ELSE 0)
                            + (IF l \notin DOMAIN pre.layers /\ k = layers[l].parent
                               THEN 1 ELSE 0)

C33_Witness ==
    /\ Returned /\ ret.err = "create error" /\ l # NoChain /\ l \notin DOMAIN layers
    /\ Count(calls, "ReleaseAndLog") = 1
    /\ layers = pre.layers

C33_WitnessSuccess ==
    /\ Returned /\ ret.err = "nil" /\ l \in DOMAIN pre.layers
    /\ Count(calls, "ReleaseAndLog") = 1
    /\ layers[l].ref = PreRef(l) + 1

\* ------------------------------------------------------------------ C34
\* The events of the first n entries of the log in which chain ch obtained
\* (op "GetByBlob") or released (op "Release") the ref of a position.
RefEvents(ch, op, pos, n) ==
    {j \in 1..n : Log(j).ch = ch /\ Log(j).op = op /\ Log(j).pos = pos}
\* The refs of a position that chain ch holds after the first n log entries.
RefsHeld(ch, pos, n) ==
    Cardinality(RefEvents(ch, "GetByBlob", pos, n)) - Cardinality(RefEvents(ch, "Release", pos, n))

\* C34: the ref handles of FromRemote and getRef are balanced. No ref is ever
\* released that was not obtained before, every release is of the chain that
\* was obtained for its position, and when FromRemote has returned every ref
\* it or getRef obtained has been released exactly once, except, on success,
\* the ref of the last position, which is the one returned.
C34_RefsBalanced ==
    \A ch \in ChainNames :
        LET call == dl.call[ch] IN
        /\ \A n \in 0..Len(DLLog), pos \in 1..Len(call.descs) : RefsHeld(ch, pos, n) >= 0
        /\ \A i \in DOMAIN DLLog :
              (Log(i).ch = ch /\ Log(i).op = "Release") =>
                  \E j \in RefEvents(ch, "GetByBlob", Log(i).pos, i - 1) :
                      Log(j).chain = Log(i).chain
        /\ call.pc = "done" =>
              /\ \A pos \in 1..Len(call.descs) :
                    RefsHeld(ch, pos, Len(DLLog)) =
                        (IF call.err = "nil" /\ pos = Len(call.descs) THEN 1 ELSE 0)
              /\ call.err = "nil" =>
                    \E j \in RefEvents(ch, "GetByBlob", Len(call.descs), Len(DLLog)) :
                        /\ Log(j).chain = call.ref
                        /\ \A m \in RefEvents(ch, "Release", Len(call.descs), Len(DLLog)) :
                              m < j

\* A chain of two positions was resolved: the ref of position 1 was obtained
\* and released twice (once by FromRemote, once as the parent inside getRef).
C34_Witness ==
    \E ch \in ChainNames :
        /\ dl.call[ch].pc = "done" /\ dl.call[ch].err = "nil" /\ Len(dl.call[ch].descs) = 2
        /\ Cardinality(RefEvents(ch, "Release", 1, Len(DLLog))) = 2
        /\ RefsHeld(ch, 2, Len(DLLog)) = 1

\* GetByBlob failed at position 2 after position 1 was resolved.
C34_WitnessError ==
    \E ch \in ChainNames :
        /\ dl.call[ch].pc = "done" /\ dl.call[ch].err = "GetByBlob"
        /\ Cardinality(RefEvents(ch, "Release", 1, Len(DLLog))) = 2

\* ------------------------------------------------------------------ C35
\* The Download of chain ch returned without an error.
DownloadSucceeded(ch) ==
    /\ dl.call[ch].pc \notin {"idle", "Download", "ReaderAt", "Register", "Registered", "Failed",
                               "Download.err"}
    /\ dl.call[ch].err \notin {"missing uncompressed digest", "invalid checksum digest format"}
    /\ \A j \in DOMAIN DLLog : ~(Log(j).ch = ch /\ Log(j).op = "Failed")
\* The calls FromRemote made of the release function Download returned.
ReleaseCalls(ch) == {j \in DOMAIN DLLog : Log(j).ch = ch /\ Log(j).op = "release()"}

\* C35: FromRemote never returns a nil ref with a nil error; for a remote with
\* no descriptors it returns an error, and so it does when the RootFS Download
\* returned has not one DiffID per requested layer; and when Download succeeded
\* FromRemote has called the release function exactly once by its return,
\* after releasing the refs it deferred, and never otherwise.
C35_FromRemoteReturns ==
    \A ch \in ChainNames :
        LET call == dl.call[ch] IN
        /\ call.pc \notin {"defers", "done"} => ReleaseCalls(ch) = {}
        /\ Cardinality(ReleaseCalls(ch)) <= 1
        /\ call.pc = "done" =>
              /\ call.err = "nil" <=> call.ref # NoChain
              /\ call.descs = <<>> => call.err = "unreachable"
              /\ (DownloadSucceeded(ch) /\ Len(call.rootFS) # Len(call.layers))
                    => call.err = "invalid layer count mismatch"
              /\ Cardinality(ReleaseCalls(ch)) = (IF DownloadSucceeded(ch) THEN 1 ELSE 0)
              /\ DownloadSucceeded(ch) => call.released /\ call.nrel >= 1
              /\ \A j \in ReleaseCalls(ch), m \in DOMAIN DLLog :
                    (Log(m).ch = ch /\ Log(m).op = "Release") => m < j

\* Download returned a RootFS shorter than the two layers requested: FromRemote
\* failed and called release once.
C35_Witness ==
    \E ch \in ChainNames :
        /\ dl.call[ch].pc = "done" /\ dl.call[ch].err = "invalid layer count mismatch"
        /\ Len(dl.call[ch].layers) = 2 /\ Len(dl.call[ch].rootFS) = 1
        /\ Cardinality(ReleaseCalls(ch)) = 1

\* A remote without descriptors.
C35_WitnessEmpty ==
    \E ch \in ChainNames :
        /\ dl.call[ch].pc = "done" /\ dl.call[ch].descs = <<>>
        /\ dl.call[ch].err = "unreachable" /\ dl.call[ch].ref = NoChain
        /\ Cardinality(ReleaseCalls(ch)) = 1

\* ------------------------------------------------------------------ a scan among other requests
\* TagImage(imageID, newTag): an image that has no name gets one that is free.
TagImage ==
    /\ \E name \in RefNames \ DOMAIN refs, imgID \in DOMAIN images :
        /\ References(refs, imgID) = {}
        /\ refs' = With(refs, name, imgID)
        /\ api' = [api EXCEPT !.n = @ + 1,
                              !.last = [Result("Tag", "nil") EXCEPT
                                          !.id = imgID, !.name = name]]
    /\ UNCHANGED <<images, layers, events, RefVars>>

\* Commits, removals and tags served while the scan runs.
DUOthers ==
    /\ du.pc \notin {"idle", "done"}
    /\ api.n < MaxOthers
    /\ (RefCommit \/ RefRemove \/ TagImage)

\* The daemon with its two pulled images and the container c1, or the one
\* whose only image has no name.
InitDUC ==
    /\ InitLocals
    /\ InitRest
    /\ \/ InitOne
       \/ InitStores(NoImage, {"c1"}) /\ InitRefs

NextDUC ==
    \/ DUCall
    \/ DUImageMap
    \/ DUWalkImage
    \/ DUChildren
    \/ DUMap
    \/ DURange
    \/ DUOthers

SpecDUC == InitDUC /\ [][NextDUC]_vars

\* ------------------------------------------------------------------ C36
\* The layers of the copy whose size the scan has added.
DUCounted == (DOMAIN du.allLayers \ du.todo) \cap DOMAIN du.layerRefs

DUScanOnCopies ==
    /\ du.walked \subseteq DOMAIN du.images
    /\ DOMAIN du.layerRefs = UNION {PrefixChains(du.images[i].rootfs) : i \in du.walked}
    /\ du.pc \in {"range", "done"} =>
          /\ du.todo \subseteq DOMAIN du.allLayers
          /\ du.allLayersSize = SumSizes(DUCounted, du.allLayers)
          /\ du.allLayersSize <= SumSizes(DOMAIN du.allLayers, du.allLayers)
          /\ \A k \in DUCounted :
                \E i \in du.walked : k \in PrefixChains(du.images[i].rootfs)

DUCopiesKept ==
    /\ (du.pc \in {"images", "Children", "Map", "range"} /\ du'.pc # "idle") =>
          /\ du'.images = du.images
          /\ du'.walk \subseteq du.walk
    /\ (du.pc = "range" /\ du'.pc # "idle") =>
          /\ du'.allLayers = du.allLayers
          /\ du'.layerRefs = du.layerRefs
          /\ du'.todo \subseteq du.todo
          /\ Cardinality(du.todo \ du'.todo) <= 1
          /\ du'.allLayersSize = SumSizes((du.todo \ du'.todo) \cap DOMAIN du.layerRefs,
                                          du.allLayers) + du.allLayersSize

\* C36: ImageDiskUsage works on copies. Whatever commits, tags and removals (of
\* names, images and layers) are served during a scan, the image map and the
\* layer map it ranges over stay what they were when they were taken; each turn of the
\* loop takes one layer out of those still to visit, so none is visited
\* twice; the total is the sum of the sizes of the visited layers of the copy
\* whose chain ID is on the RootFS of a walked image of the image copy, and it
\* never exceeds the sum of the sizes of all layers of the copy.
C36_ScanWorksOnCopies == []DUScanOnCopies /\ [][DUCopiesKept]_vars

\* The scan has counted a layer that has been deleted from the layer store
\* since the copy was taken, and the store has a layer the copy has not.
C36_Witness ==
    /\ du.pc = "done" /\ du.err = "nil"
    /\ \E k \in DUCounted : k \notin DOMAIN layers
    /\ DOMAIN layers \ DOMAIN du.allLayers # {}
    /\ DOMAIN du.images # DOMAIN images

\* ------------------------------------------------------------------ Worker.GetRemotes
\* What the builder's calls leave alone.
NotBuilder == <<pc, ctxDone, c, Locals, ret, rc, Stores, containers, calls, pre, clock, ncalls,
                hpc, req, refs, du, rel, mgr, dl, api>>

\* The refs a caller passes ("nil": no ref), and the diff-ID lists the layer
\* access can answer with.
CacheRefs == {"nil", "ref1", "ref2"}
DiffLists == UNION {[1..n -> DiffIDs] : n \in 0..MaxDiff}

\* ocispec.Descriptor{MediaType: MediaTypeDockerSchema2Layer, Digest: dgst, Size: -1}
\* MediaTypeDockerSchema2Layer is the uncompressed layer type: the digest is a
\* diff ID.
LayerDescriptor(dgst) ==
    [MediaType |-> "application/vnd.docker.image.rootfs.diff.tar", Digest |-> dgst,
     Size |-> -1]

\* GetRemotes is entered: if ref == nil { return nil, nil }, then the branch on
\* createIfNeeded.
GetRemotesCall ==
    /\ bk.gr.pc = "idle"
    /\ \E ref \in CacheRefs, createIfNeeded \in BOOLEAN, all \in BOOLEAN :
        bk' = [bk EXCEPT !.gr =
                 [NoRemotes EXCEPT !.ref = ref, !.createIfNeeded = createIfNeeded, !.all = all,
                                   !.err = IF ref = "nil" THEN "nil" ELSE "none",
                                   !.pc = IF ref = "nil" THEN "done"
                                          ELSE IF createIfNeeded THEN "Finalize"
                                          ELSE "GetDiffIDs"]]
    /\ UNCHANGED NotBuilder

\* One call of GetRemotes on the ref or the layer access: it fails, and
\* GetRemotes returns its error, or it succeeds and GetRemotes goes on at next.
GetRemotesStep(op, next, answers) ==
    /\ bk.gr.pc = op
    /\ \/ bk' = [bk EXCEPT !.gr.calls = Append(@, op), !.gr.err = op, !.gr.pc = "done"]
       \/ \E diffIDs \in answers :
             bk' = [bk EXCEPT !.gr.calls = Append(@, op), !.gr.diffIDs = diffIDs,
                              !.gr.pc = next]
    /\ UNCHANGED NotBuilder

\* Variant: EnsureLayer is called although Extract failed.
GetRemotesExtractGoesOn ==
    /\ bk.gr.pc = "Extract"
    /\ \/ bk' = [bk EXCEPT !.gr.calls = @ \o <<"Extract", "EnsureLayer">>,
                            !.gr.err = "Extract", !.gr.pc = "done"]
       \/ bk' = [bk EXCEPT !.gr.calls = Append(@, "Extract"), !.gr.pc = "EnsureLayer"]
    /\ UNCHANGED NotBuilder

\* diffIDs, err = w.Layers.GetDiffIDs(ctx, ref.ID())
GetRemotesGetDiffIDs == GetRemotesStep("GetDiffIDs", "descriptors", DiffLists)
\* if err := ref.Finalize(ctx); err != nil { return nil, err }
GetRemotesFinalize == GetRemotesStep("Finalize", "Extract", {<<>>})
\* if err := ref.Extract(ctx, s); err != nil { return nil, err }
GetRemotesExtract == GetRemotesStep("Extract", "EnsureLayer", {<<>>})
\* diffIDs, err = w.Layers.EnsureLayer(ctx, ref.ID())
GetRemotesEnsureLayer == GetRemotesStep("EnsureLayer", "descriptors", DiffLists)

\* The descriptors are built, one per diff ID, and the one remote is returned.
GetRemotesReturn ==
    /\ bk.gr.pc = "descriptors"
    /\ bk' = [bk EXCEPT
                !.gr.remotes = <<[Descriptors |-> [n \in DOMAIN bk.gr.diffIDs |->
                                                     LayerDescriptor(bk.gr.diffIDs[n])],
                                  Provider |-> "emptyProvider"]>>,
                !.gr.err = "nil",
                !.gr.pc = "done"]
    /\ UNCHANGED NotBuilder

\* The caller has its answer.
GetRemotesDone ==
    /\ bk.gr.pc = "done"
    /\ bk' = [bk EXCEPT !.gr = NoRemotes]
    /\ UNCHANGED NotBuilder

NextGR ==
    \/ GetRemotesCall
    \/ GetRemotesGetDiffIDs
    \/ GetRemotesFinalize
    \/ GetRemotesExtract
    \/ GetRemotesEnsureLayer
    \/ GetRemotesReturn
    \/ GetRemotesDone

SpecGR == Init /\ [][NextGR]_vars

\* ------------------------------------------------------------------ C37
\* C37: GetRemotes with a nil ref returns no remotes and no error, and calls
\* nothing. With createIfNeeded false its only call is GetDiffIDs; with
\* createIfNeeded true it calls Finalize, Extract, EnsureLayer in that order,
\* and a call that fails is its last: its error is returned with no remotes.
\* On success it returns one remote, whose descriptors are one per diff ID,
\* each with the diff ID as its digest, in the order of the diff IDs.
C37_GetRemotes ==
    LET g == bk.gr
        plan == IF g.createIfNeeded THEN <<"Finalize", "Extract", "EnsureLayer">>
                ELSE <<"GetDiffIDs">> IN
    /\ IsPrefix(g.calls, plan)
    /\ (g.pc # "idle" /\ g.ref = "nil") =>
          g.pc = "done" /\ g.calls = <<>> /\ g.remotes = <<>> /\ g.err = "nil"
    /\ (g.pc = "done" /\ g.ref # "nil") =>
          IF g.err = "nil"
          THEN /\ g.calls = plan
               /\ Len(g.remotes) = 1
               /\ Len(g.remotes[1].Descriptors) = Len(g.diffIDs)
               /\ \A n \in DOMAIN g.diffIDs : g.remotes[1].Descriptors[n].Digest = g.diffIDs[n]
          ELSE /\ g.calls # <<>>
               /\ g.err = Last(g.calls)
               /\ g.remotes = <<>>

C37_Witness ==
    /\ bk.gr.pc = "done" /\ bk.gr.createIfNeeded /\ bk.gr.err = "nil"
    /\ bk.gr.diffIDs = <<2, 1>>
    /\ bk.gr.calls = <<"Finalize", "Extract", "EnsureLayer">>
    /\ bk.gr.remotes[1].Descriptors[1].Digest = 2

C37_WitnessError ==
    /\ bk.gr.pc = "done" /\ bk.gr.err = "Extract"
    /\ bk.gr.calls = <<"Finalize", "Extract">>

\* ------------------------------------------------------------------ the upload hand-off
\* Variant: every signal overwrites the recorded outcome.
wrapRCcloseOverwrites(j, err) ==
    [j EXCEPT !.once = TRUE, !.err = err, !.signals = Append(@, err)]

\* wrapRC.close(err): w.once.Do(func() { w.err = err; close(w.waitCh) })
wrapRCclose(j, err) ==
    IF j.once THEN [j EXCEPT !.signals = Append(@, err)]
    ELSE [j EXCEPT !.once = TRUE, !.err = err, !.signals = Append(@, err)]

\* A request enters WaitUpload and reaches its select.
WaitUploadCall ==
    /\ bk.job.w = "idle"
    /\ bk' = [bk EXCEPT !.job.w = "select"]
    /\ UNCHANGED NotBuilder

\* A request enters SetUpload and reaches its select.
SetUploadCall ==
    /\ bk.job.s = "idle"
    /\ bk' = [bk EXCEPT !.job.s = "select"]
    /\ UNCHANGED NotBuilder

\* The context of one of the two calls ends (its timeout, or the caller's cancel).
ContextEnds ==
    /\ \/ /\ bk.job.w \in {"idle", "select", "done?"}
          /\ ~bk.job.ctxW
          /\ bk' = [bk EXCEPT !.job.ctxW = TRUE]
       \/ /\ bk.job.s \in {"idle", "select", "fn", "wait"}
          /\ ~bk.job.ctxS
          /\ bk' = [bk EXCEPT !.job.ctxS = TRUE]
    /\ UNCHANGED NotBuilder

\* WaitUpload: case <-ctx.Done(): return nil, ctx.Err()
WaitUploadCtx ==
    /\ bk.job.w = "select"
    /\ bk.job.ctxW
    /\ bk' = [bk EXCEPT !.job.w = "returned",
                        !.job.retW = [rc |-> "nil", err |-> "context canceled"]]
    /\ UNCHANGED NotBuilder

\* SetUpload: case <-ctx.Done(): return ctx.Err()
SetUploadCtx ==
    /\ bk.job.s = "select"
    /\ bk.job.ctxS
    /\ bk' = [bk EXCEPT !.job.s = "returned", !.job.retS = "context canceled"]
    /\ UNCHANGED NotBuilder

\* The unbuffered channel: WaitUpload's case j.waitCh <- fn and SetUpload's
\* case fn := <-j.waitCh proceed together. A select with several cases ready
\* takes any of them, so a context that has ended does not keep this step
\* from being taken.
HandOff ==
    /\ bk.job.w = "select"
    /\ bk.job.s = "select"
    /\ bk' = [bk EXCEPT !.job.w = "done?", !.job.s = "fn", !.job.handed = TRUE,
                        !.job.lateW = bk.job.ctxW, !.job.lateS = bk.job.ctxS]
    /\ UNCHANGED NotBuilder

\* SetUpload runs fn(rc): the reader is wrapped, upload is set, done is closed;
\* then it waits in w.wait().
UploadFn ==
    /\ bk.job.s = "fn"
    /\ bk' = [bk EXCEPT !.job.upload = "wrapRC", !.job.done = TRUE, !.job.s = "wait"]
    /\ UNCHANGED NotBuilder

\* WaitUpload: <-done; return upload, nil
WaitUploadReturn ==
    /\ bk.job.w = "done?"
    /\ bk.job.done
    /\ bk' = [bk EXCEPT !.job.w = "returned",
                        !.job.retW = [rc |-> bk.job.upload, err |-> "nil"]]
    /\ UNCHANGED NotBuilder

\* wrapRC.Read by the one who got the reader from WaitUpload: the wrapped
\* reader answers with data, io.EOF or an error.
WrapRead ==
    /\ bk.job.retW.rc = "wrapRC"
    /\ bk.job.rd = "idle"
    /\ bk.job.reads < MaxReads
    /\ \E answer \in {"data", "EOF", "read error"} :
        bk' = [bk EXCEPT !.job.reads = @ + 1,
                         !.job.rd = IF answer = "data" THEN "idle"
                                    ELSE IF answer = "EOF" THEN "nil" ELSE answer]
    /\ UNCHANGED NotBuilder

\* wrapRC.Read: case io.EOF: w.close(nil); default: w.close(err)
WrapReadSignal ==
    /\ bk.job.rd # "idle"
    /\ bk' = [bk EXCEPT !.job = [wrapRCclose(bk.job, bk.job.rd) EXCEPT !.rd = "idle"]]
    /\ UNCHANGED NotBuilder

\* wrapRC.Close: err := w.ReadCloser.Close()
WrapClose ==
    /\ bk.job.retW.rc = "wrapRC"
    /\ bk.job.cl = "idle"
    /\ bk.job.closes < MaxCloses
    /\ \E answer \in {"nil", "close error"} :
        bk' = [bk EXCEPT !.job.closes = @ + 1, !.job.cl = answer]
    /\ UNCHANGED NotBuilder

\* wrapRC.Close: w.close(err)
WrapCloseSignal ==
    /\ bk.job.cl # "idle"
    /\ bk' = [bk EXCEPT !.job = [wrapRCclose(bk.job, bk.job.cl) EXCEPT !.cl = "idle"]]
    /\ UNCHANGED NotBuilder

\* SetUpload: w.wait() returns once waitCh is closed: <-w.waitCh; return w.err
SetUploadReturn ==
    /\ bk.job.s = "wait"
    /\ bk.job.once
    /\ bk' = [bk EXCEPT !.job.s = "returned", !.job.retS = bk.job.err]
    /\ UNCHANGED NotBuilder

NextJob ==
    \/ WaitUploadCall
    \/ SetUploadCall
    \/ ContextEnds
    \/ WaitUploadCtx
    \/ SetUploadCtx
    \/ HandOff
    \/ UploadFn
    \/ WaitUploadReturn
    \/ WrapRead
    \/ WrapReadSignal
    \/ WrapClose
    \/ WrapCloseSignal
    \/ SetUploadReturn

SpecJob == Init /\ [][NextJob]_vars

\* ------------------------------------------------------------------ C38
Job == bk.job

\* WaitUpload returns the reader only after SetUpload handed it over; SetUpload
\* returns after the hand-off only once the reader has signalled, with the first
\* outcome signalled (nil for the end of the stream); a call that returns
\* without the hand-off returns the error of its context, which has ended.
JobRendezvous ==
    /\ Job.retW.rc # "nil" =>
          /\ Job.retW = [rc |-> "wrapRC", err |-> "nil"]
          /\ Job.handed /\ Job.upload = "wrapRC"
          /\ Job.s \in {"wait", "returned"}
    /\ Job.w = "returned" => (Job.handed <=> Job.retW.rc = "wrapRC")
    /\ (Job.w = "returned" /\ ~Job.handed) =>
          Job.ctxW /\ Job.retW = [rc |-> "nil", err |-> "context canceled"]
    /\ (Job.s = "returned" /\ ~Job.handed) => Job.ctxS /\ Job.retS = "context canceled"
    /\ (Job.s = "returned" /\ Job.handed) =>
          /\ Job.once /\ Job.signals # <<>>
          /\ Job.retS = Job.signals[1]
          /\ Job.retS \in {"nil", "read error", "close error"}
          /\ Job.reads + Job.closes > 0
    /\ Job.once <=> Job.signals # <<>>
    /\ Job.once => Job.err = Job.signals[1]
    /\ Job.signals # <<>> => Job.retW.rc = "wrapRC"

\* The outcome is recorded once.
JobRecordedOnce == Job.once => bk'.job.once /\ bk'.job.err = Job.err

\* No hand-off takes place for a call whose context has ended.
JobNoLateHandOff == Job.handed => ~Job.lateW /\ ~Job.lateS

\* C38 as stated: the rendezvous, the outcome recorded once, and either call
\* returning the error of its context whenever that context ended before the
\* hand-off took place.
C38_ContextEndedMeansError ==
    [](JobRendezvous /\ JobNoLateHandOff) /\ [][JobRecordedOnce]_vars

\* C38, amended: the rendezvous and the outcome recorded once; a call returns
\* the error of its context exactly when it returns without the hand-off, and
\* then its context has ended. (A call whose context has ended while its peer
\* waits may still take the hand-off, and after the hand-off no context is
\* looked at.)
C38_UploadHandOff == []JobRendezvous /\ [][JobRecordedOnce]_vars

\* SetUpload returned nil after the reader hit the end of the stream and Close
\* signalled an error afterwards; the hand-off was taken by a WaitUpload whose
\* context had ended.
C38_Witness ==
    /\ Job.s = "returned" /\ Job.handed /\ Job.retS = "nil"
    /\ Job.signals = <<"nil", "close error">>
    /\ Job.lateW /\ Job.retW.rc = "wrapRC"

\* SetUpload gave up on its context before any WaitUpload came.
C38_WitnessContext ==
    /\ Job.s = "returned" /\ Job.retS = "context canceled" /\ Job.w = "idle"
====
